---- MODULE Spec2Model ----
(***************************************************************************)
(* Verification model of the Sudoku game core: SudokuEngine (validation,   *)
(* backtracking solver, bounded solution search, puzzle generator) and     *)
(* GameManager (session state machine, move history, timer).               *)
(*                                                                         *)
(* Grids are the 9x9 arrays of the source, indexed grid[row][col] with     *)
(* rows and columns 0..8; the empty cell (null) is written 0.              *)
(***************************************************************************)
EXTENDS Integers, Sequences, FiniteSets, TLC

(***************************************************************************)
(* Program constants                                                       *)
(***************************************************************************)
GRID_SIZE == 9
BOX_SIZE == 3

null == 0

Idx == 0..(GRID_SIZE - 1)
Nums == 1..GRID_SIZE

(***************************************************************************)
(* State.  fill and gen are the generator's position in one run of         *)
(* generateCompleteSolution / generatePuzzle; probe is a caller of the     *)
(* engine's validation functions; storage, storageResult and ads are the   *)
(* persistence and advertising services; the rest is the GameManager       *)
(* object and its environment (clock, scheduler, listeners).               *)
(***************************************************************************)
VARIABLES
    fill,           \* fillRemaining in progress: the explicit-stack search state
    gen,            \* generatePuzzle in progress: locals of the removal loop
    probe,          \* a caller's grid and the last validation call made on it
    storage,        \* AsyncStorage: the text stored under each key of Storage.KEYS
    storageResult,  \* the caller of Storage: its last call, the outcome, the games added
    ads,            \* AdFrequencyManager's fields, the shows awaited and the ads shown
    gameData,       \* GameManager.gameData (NoData is null)
    gameState,      \* GameManager.gameState
    startTime,      \* GameManager.startTime
    pausedTime,     \* GameManager.pausedTime
    timerInterval,  \* GameManager.timerInterval (NoTimer is null)
    timers,         \* the scheduler: handles of the intervals set and not cleared
    events,         \* the listener: callbacks invoked by the last operation, in order
    result,         \* the caller: the last operation, its arguments and outcome
    now,            \* Date.now(), in milliseconds
    completions,    \* the listener: onGameComplete calls since the session was created
    playedMs        \* milliseconds the current session has spent in state playing

managerVars == <<gameData, gameState, startTime, pausedTime, timerInterval,
                 timers, events, result, now, completions, playedMs>>
serviceVars == <<storage, storageResult, ads>>
vars == <<fill, gen, probe, serviceVars, managerVars>>

(***************************************************************************)
(* SudokuEngine: grids                                                     *)
(***************************************************************************)
createEmptyGrid == [r \in Idx |-> [c \in Idx |-> null]]

\* (x / BOX_SIZE) floored, times BOX_SIZE
BoxStart(x) == (x \div BOX_SIZE) * BOX_SIZE

\* isValidMove without the scan of the 3x3 box
isValidMove_noBox(grid, row, col, num) ==
    IF num = null THEN TRUE
    ELSE /\ \A c \in Idx : ~(c # col /\ grid[row][c] = num)
         /\ \A r \in Idx : ~(r # row /\ grid[r][col] = num)

\* isValidMove with the scans not skipping the cell (row, col) itself
isValidMove_includesSelf(grid, row, col, num) ==
    IF num = null THEN TRUE
    ELSE /\ \A c \in Idx : ~(grid[row][c] = num)
         /\ \A r \in Idx : ~(grid[r][col] = num)
         /\ \A r \in BoxStart(row)..(BoxStart(row) + BOX_SIZE - 1) :
              \A c \in BoxStart(col)..(BoxStart(col) + BOX_SIZE - 1) :
                 ~(grid[r][c] = num)

isValidMove(grid, row, col, num) ==
    IF num = null THEN TRUE
    ELSE /\ \A c \in Idx : ~(c # col /\ grid[row][c] = num)
         /\ \A r \in Idx : ~(r # row /\ grid[r][col] = num)
         /\ \A r \in BoxStart(row)..(BoxStart(row) + BOX_SIZE - 1) :
              \A c \in BoxStart(col)..(BoxStart(col) + BOX_SIZE - 1) :
                 ~((r # row \/ c # col) /\ grid[r][c] = num)

\* Position of the k-th cell in row-major order (getAllPositions order).
PosOf(k) == [row |-> k \div GRID_SIZE, col |-> k % GRID_SIZE]

AllCells == 0..(GRID_SIZE * GRID_SIZE - 1)

\* The first empty cell in row-major order, as the index row * GRID_SIZE + col,
\* or GRID_SIZE * GRID_SIZE when the grid has none (the nested scanning loops
\* of solveRecursive and findAllSolutions).
FirstEmpty(grid) ==
    CHOOSE k \in 0..(GRID_SIZE * GRID_SIZE) :
        /\ k = GRID_SIZE * GRID_SIZE \/ grid[k \div GRID_SIZE][k % GRID_SIZE] = null
        /\ \A j \in 0..(k - 1) : grid[j \div GRID_SIZE][j % GRID_SIZE] # null

\* validateGrid with isCompleted decided by the count of filled cells alone
validateGrid_completedWhenFull(grid) ==
    LET filled == {k \in AllCells : grid[PosOf(k).row][PosOf(k).col] # null}
        conflicts == {k \in filled :
                        ~isValidMove(grid, PosOf(k).row, PosOf(k).col,
                                     grid[PosOf(k).row][PosOf(k).col])}
    IN [isValid |-> conflicts = {},
        conflicts |-> {PosOf(k) : k \in conflicts},
        isCompleted |-> Cardinality(filled) = GRID_SIZE * GRID_SIZE]

validateGrid(grid) ==
    LET filled == {k \in AllCells : grid[PosOf(k).row][PosOf(k).col] # null}
        conflicts == {k \in filled :
                        ~isValidMove(grid, PosOf(k).row, PosOf(k).col,
                                     grid[PosOf(k).row][PosOf(k).col])}
    IN [isValid |-> conflicts = {},
        conflicts |-> {PosOf(k) : k \in conflicts},
        isCompleted |-> conflicts = {} /\ Cardinality(filled) = GRID_SIZE * GRID_SIZE]

(***************************************************************************)
(* Recursion in the engine.  Each recursive search of the source is        *)
(* modelled by its call stack made explicit: a search state holds the grid *)
(* being mutated and one frame per active call (the cell that call has     *)
(* written), `num` is the loop variable of the innermost call, and `pc`    *)
(* says whether the innermost call is entering ("call"), testing a         *)
(* candidate ("loop") or has just returned to its caller ("ret").  One     *)
(* step is one statement of the source; Run... applies steps until the     *)
(* outermost call has returned.                                            *)
(***************************************************************************)

\* Run(s, k) performs up to 8^k steps and stops as soon as the search is done;
\* 8^RunDepth exceeds the number of steps of every search of the model.
RunDepth == GRID_SIZE

(***************************************************************************)
(* SudokuEngine.findAllSolutions / hasUniqueSolution                       *)
(***************************************************************************)
findAllInit(grid, solutions, maxSolutions) ==
    [grid |-> grid, frames |-> <<>>, num |-> 0, pc |-> "call",
     solutions |-> solutions, maxSolutions |-> maxSolutions]

findAllDone(s) == s.pc = "ret" /\ s.frames = <<>>

\* findAllSolutions without the test of solutions.length on entry
findAllStep_noLimit(s) ==
    IF s.pc = "call" THEN
        LET k == FirstEmpty(s.grid)
        IN IF k < GRID_SIZE * GRID_SIZE
           THEN [s EXCEPT !.frames = Append(@, k), !.num = 1, !.pc = "loop"]
           ELSE [s EXCEPT !.solutions = Append(@, s.grid), !.pc = "ret"]
    ELSE LET k == s.frames[Len(s.frames)]
             row == k \div GRID_SIZE
             col == k % GRID_SIZE
         IN IF s.pc = "loop" THEN
                IF s.num > 9
                THEN [s EXCEPT !.frames = SubSeq(@, 1, Len(@) - 1), !.pc = "ret"]
                ELSE IF isValidMove(s.grid, row, col, s.num)
                THEN [s EXCEPT !.grid[row][col] = s.num, !.pc = "call"]
                ELSE [s EXCEPT !.num = @ + 1]
            ELSE [s EXCEPT !.num = s.grid[row][col] + 1, !.grid[row][col] = null,
                           !.pc = "loop"]

findAllStep(s) ==
    IF s.pc = "call" THEN
        IF Len(s.solutions) >= s.maxSolutions THEN [s EXCEPT !.pc = "ret"]
        ELSE LET k == FirstEmpty(s.grid)
             IN IF k < GRID_SIZE * GRID_SIZE
                THEN [s EXCEPT !.frames = Append(@, k), !.num = 1, !.pc = "loop"]
                ELSE \* Found a complete solution
                     [s EXCEPT !.solutions = Append(@, s.grid), !.pc = "ret"]
    ELSE LET k == s.frames[Len(s.frames)]
             row == k \div GRID_SIZE
             col == k % GRID_SIZE
         IN IF s.pc = "loop" THEN
                IF s.num > 9
                THEN [s EXCEPT !.frames = SubSeq(@, 1, Len(@) - 1), !.pc = "ret"]
                ELSE IF isValidMove(s.grid, row, col, s.num)
                THEN [s EXCEPT !.grid[row][col] = s.num, !.pc = "call"]
                ELSE [s EXCEPT !.num = @ + 1]
            ELSE \* the recursive call returned: clear the cell, next candidate
                [s EXCEPT !.num = s.grid[row][col] + 1, !.grid[row][col] = null,
                          !.pc = "loop"]

RECURSIVE findAllRun(_, _)
findAllRun(s, k) ==
    IF findAllDone(s) THEN s
    ELSE IF k = 0 THEN findAllStep(s)
    ELSE LET s1 == findAllRun(s, k - 1)
             s2 == findAllRun(s1, k - 1)
             s3 == findAllRun(s2, k - 1)
             s4 == findAllRun(s3, k - 1)
             s5 == findAllRun(s4, k - 1)
             s6 == findAllRun(s5, k - 1)
             s7 == findAllRun(s6, k - 1)
             s8 == findAllRun(s7, k - 1)
         IN <<s1, s2, s3, s4, s5, s6, s7, s8>>[8]

\* The solutions list after findAllSolutions(grid, solutions, maxSolutions).
findAllSolutions(grid, solutions, maxSolutions) ==
    findAllRun(findAllInit(grid, solutions, maxSolutions), RunDepth).solutions

\* hasUniqueSolution accepting every solvable grid
hasUniqueSolution_atLeastOne(grid) == Len(findAllSolutions(grid, <<>>, 2)) >= 1

hasUniqueSolution(grid) == Len(findAllSolutions(grid, <<>>, 2)) = 1

(***************************************************************************)
(* SudokuEngine.solvePuzzle / solveRecursive                               *)
(***************************************************************************)
solveInit(grid) ==
    [workingGrid |-> grid, resultGrid |-> grid, frames |-> <<>>, num |-> 0,
     pc |-> "call", returned |-> FALSE]

solveDone(s) == s.pc = "ret" /\ s.frames = <<>>

\* solveRecursive trying the candidates from 9 down to 1
solveStep_descending(s) ==
    IF s.pc = "call" THEN
        LET k == FirstEmpty(s.workingGrid)
        IN IF k < GRID_SIZE * GRID_SIZE
           THEN [s EXCEPT !.frames = Append(@, k), !.num = 9, !.pc = "loop"]
           ELSE [s EXCEPT !.resultGrid = s.workingGrid, !.returned = TRUE, !.pc = "ret"]
    ELSE LET k == s.frames[Len(s.frames)]
             row == k \div GRID_SIZE
             col == k % GRID_SIZE
         IN IF s.pc = "loop" THEN
                IF s.num < 1
                THEN [s EXCEPT !.frames = SubSeq(@, 1, Len(@) - 1),
                               !.returned = FALSE, !.pc = "ret"]
                ELSE IF isValidMove(s.workingGrid, row, col, s.num)
                THEN [s EXCEPT !.workingGrid[row][col] = s.num, !.pc = "call"]
                ELSE [s EXCEPT !.num = @ - 1]
            ELSE IF s.returned
            THEN [s EXCEPT !.resultGrid[row][col] = s.workingGrid[row][col],
                           !.frames = SubSeq(@, 1, Len(@) - 1)]
            ELSE [s EXCEPT !.num = s.workingGrid[row][col] - 1,
                           !.workingGrid[row][col] = null, !.pc = "loop"]

\* solveRecursive writing each placement into the caller's grid as well
solveStep_resultOnPlace(s) ==
    IF s.pc = "call" THEN
        LET k == FirstEmpty(s.workingGrid)
        IN IF k < GRID_SIZE * GRID_SIZE
           THEN [s EXCEPT !.frames = Append(@, k), !.num = 1, !.pc = "loop"]
           ELSE [s EXCEPT !.resultGrid = s.workingGrid, !.returned = TRUE, !.pc = "ret"]
    ELSE LET k == s.frames[Len(s.frames)]
             row == k \div GRID_SIZE
             col == k % GRID_SIZE
         IN IF s.pc = "loop" THEN
                IF s.num > 9
                THEN [s EXCEPT !.frames = SubSeq(@, 1, Len(@) - 1),
                               !.returned = FALSE, !.pc = "ret"]
                ELSE IF isValidMove(s.workingGrid, row, col, s.num)
                THEN [s EXCEPT !.workingGrid[row][col] = s.num,
                               !.resultGrid[row][col] = s.num, !.pc = "call"]
                ELSE [s EXCEPT !.num = @ + 1]
            ELSE IF s.returned
            THEN [s EXCEPT !.resultGrid[row][col] = s.workingGrid[row][col],
                           !.frames = SubSeq(@, 1, Len(@) - 1)]
            ELSE [s EXCEPT !.num = s.workingGrid[row][col] + 1,
                           !.workingGrid[row][col] = null, !.pc = "loop"]

solveStep(s) ==
    IF s.pc = "call" THEN
        LET k == FirstEmpty(s.workingGrid)
        IN IF k < GRID_SIZE * GRID_SIZE
           THEN [s EXCEPT !.frames = Append(@, k), !.num = 1, !.pc = "loop"]
           ELSE \* Copy solved grid to result
                [s EXCEPT !.resultGrid = s.workingGrid, !.returned = TRUE, !.pc = "ret"]
    ELSE LET k == s.frames[Len(s.frames)]
             row == k \div GRID_SIZE
             col == k % GRID_SIZE
         IN IF s.pc = "loop" THEN
                IF s.num > 9
                THEN [s EXCEPT !.frames = SubSeq(@, 1, Len(@) - 1),
                               !.returned = FALSE, !.pc = "ret"]
                ELSE IF isValidMove(s.workingGrid, row, col, s.num)
                THEN [s EXCEPT !.workingGrid[row][col] = s.num, !.pc = "call"]
                ELSE [s EXCEPT !.num = @ + 1]
            ELSE IF s.returned
            THEN [s EXCEPT !.resultGrid[row][col] = s.workingGrid[row][col],
                           !.frames = SubSeq(@, 1, Len(@) - 1)]
            ELSE [s EXCEPT !.num = s.workingGrid[row][col] + 1,
                           !.workingGrid[row][col] = null, !.pc = "loop"]

RECURSIVE solveRun(_, _)
solveRun(s, k) ==
    IF solveDone(s) THEN s
    ELSE IF k = 0 THEN solveStep(s)
    ELSE LET s1 == solveRun(s, k - 1)
             s2 == solveRun(s1, k - 1)
             s3 == solveRun(s2, k - 1)
             s4 == solveRun(s3, k - 1)
             s5 == solveRun(s4, k - 1)
             s6 == solveRun(s5, k - 1)
             s7 == solveRun(s6, k - 1)
             s8 == solveRun(s7, k - 1)
         IN <<s1, s2, s3, s4, s5, s6, s7, s8>>[8]

\* solvePuzzle(grid): the value returned and the caller's grid afterwards.
solvePuzzle(grid) ==
    LET s == solveRun(solveInit(grid), RunDepth)
    IN [returned |-> s.returned, grid |-> s.resultGrid]

(***************************************************************************)
(* Math.random and SudokuEngine.shuffleArray.  The ambient generator is a  *)
(* stream of values in [0, 1) fixed by a seed; rng is its state and the    *)
(* value it returns is rng / 65537.                                        *)
(***************************************************************************)
NextRandom(rng) == (rng * 75 + 74) % 65537

\* Math.floor(Math.random() * n) for the value drawn in state rng
RandomBelow(rng, n) == (rng * n) \div 65537

\* Arrays are functions on 0..(length - 1).
Length(array) == Cardinality(DOMAIN array)

\* One iteration of the loop of shuffleArray: draws j and swaps [i] and [j].
shuffleStep(s) ==
    LET rng == NextRandom(s.rng)
        j == RandomBelow(rng, s.i + 1)
    IN [shuffled |-> [s.shuffled EXCEPT ![s.i] = s.shuffled[j], ![j] = s.shuffled[s.i]],
        i |-> s.i - 1, rng |-> rng]

RECURSIVE shuffleRun(_, _)
shuffleRun(s, k) ==
    IF ~(s.i > 0) THEN s
    ELSE IF k = 0 THEN shuffleStep(s)
    ELSE LET s1 == shuffleRun(s, k - 1)
             s2 == shuffleRun(s1, k - 1)
             s3 == shuffleRun(s2, k - 1)
             s4 == shuffleRun(s3, k - 1)
             s5 == shuffleRun(s4, k - 1)
             s6 == shuffleRun(s5, k - 1)
             s7 == shuffleRun(s6, k - 1)
             s8 == shuffleRun(s7, k - 1)
         IN <<s1, s2, s3, s4, s5, s6, s7, s8>>[8]

\* shuffleArray(array) with the generator in state rng: the shuffled copy
\* and the generator's state afterwards.
shuffleArray(array, rng) ==
    LET s == shuffleRun([shuffled |-> array, i |-> Length(array) - 1, rng |-> rng],
                        RunDepth)
    IN [shuffled |-> s.shuffled, rng |-> s.rng]

(***************************************************************************)
(* SudokuEngine.generateCompleteSolution                                   *)
(***************************************************************************)
fillBox(grid, row, col, rng) ==
    LET sh == shuffleArray([i \in 0..(GRID_SIZE - 1) |-> i + 1], rng)
        numbers == sh.shuffled
    IN [grid |-> [r \in Idx |-> [c \in Idx |->
                    IF r \in row..(row + BOX_SIZE - 1) /\ c \in col..(col + BOX_SIZE - 1)
                    THEN numbers[(r - row) * BOX_SIZE + (c - col)]
                    ELSE grid[r][c]]],
        rng |-> sh.rng]

RECURSIVE fillDiagonalFrom(_, _, _)
fillDiagonalFrom(grid, box, rng) ==
    IF box < GRID_SIZE
    THEN LET b == fillBox(grid, box, box, rng)
         IN fillDiagonalFrom(b.grid, box + BOX_SIZE, b.rng)
    ELSE [grid |-> grid, rng |-> rng]

fillDiagonalBoxes(grid, rng) == fillDiagonalFrom(grid, 0, rng)

\* fillRemaining(grid, row, col) is about to be called with (row, col); frames
\* are the cells written by the active calls.
fillInit(grid, row, col) ==
    [grid |-> grid, frames |-> <<>>, row |-> row, col |-> col, num |-> 0,
     pc |-> "call", returned |-> FALSE]

fillDone(s) == s.pc = "ret" /\ s.frames = <<>>

\* The prologue of fillRemaining: the cell the call works on, or returns TRUE.
fillTarget(row0, col0) ==
    LET wrap == col0 >= GRID_SIZE /\ row0 < GRID_SIZE - 1
        row1 == IF wrap THEN row0 + 1 ELSE row0
        col1 == IF wrap THEN 0 ELSE col0
    IN IF row1 >= GRID_SIZE /\ col1 >= GRID_SIZE THEN [returns |-> TRUE, row |-> row1, col |-> col1]
       ELSE IF row1 < BOX_SIZE
       THEN [returns |-> FALSE, row |-> row1,
             col |-> IF col1 < BOX_SIZE THEN BOX_SIZE ELSE col1]
       ELSE IF row1 < GRID_SIZE - BOX_SIZE
       THEN [returns |-> FALSE, row |-> row1,
             col |-> IF col1 = BoxStart(row1) THEN col1 + BOX_SIZE ELSE col1]
       ELSE IF col1 = GRID_SIZE - BOX_SIZE
       THEN [returns |-> row1 + 1 >= GRID_SIZE, row |-> row1 + 1, col |-> 0]
       ELSE [returns |-> FALSE, row |-> row1, col |-> col1]

fillStep(s) ==
    IF s.pc = "call" THEN
        LET t == fillTarget(s.row, s.col)
        IN IF t.returns THEN [s EXCEPT !.returned = TRUE, !.pc = "ret"]
           ELSE [s EXCEPT !.frames = Append(@, t.row * GRID_SIZE + t.col),
                          !.num = 1, !.pc = "loop"]
    ELSE LET k == s.frames[Len(s.frames)]
             row == k \div GRID_SIZE
             col == k % GRID_SIZE
         IN IF s.pc = "loop" THEN
                IF s.num > GRID_SIZE
                THEN [s EXCEPT !.frames = SubSeq(@, 1, Len(@) - 1),
                               !.returned = FALSE, !.pc = "ret"]
                ELSE IF isValidMove(s.grid, row, col, s.num)
                THEN [s EXCEPT !.grid[row][col] = s.num,
                               !.row = row, !.col = col + 1, !.pc = "call"]
                ELSE [s EXCEPT !.num = @ + 1]
            ELSE IF s.returned
            THEN [s EXCEPT !.frames = SubSeq(@, 1, Len(@) - 1)]
            ELSE [s EXCEPT !.num = s.grid[row][col] + 1, !.grid[row][col] = null,
                           !.pc = "loop"]

RECURSIVE fillRun(_, _)
fillRun(s, k) ==
    IF fillDone(s) THEN s
    ELSE IF k = 0 THEN fillStep(s)
    ELSE LET s1 == fillRun(s, k - 1)
             s2 == fillRun(s1, k - 1)
             s3 == fillRun(s2, k - 1)
             s4 == fillRun(s3, k - 1)
             s5 == fillRun(s4, k - 1)
             s6 == fillRun(s5, k - 1)
             s7 == fillRun(s6, k - 1)
             s8 == fillRun(s7, k - 1)
         IN <<s1, s2, s3, s4, s5, s6, s7, s8>>[8]

\* fillRemaining(grid, row, col): the value returned and the grid afterwards.
fillRemaining(grid, row, col) ==
    LET s == fillRun(fillInit(grid, row, col), RunDepth)
    IN [returned |-> s.returned, grid |-> s.grid]

\* fillRemaining(grid, 0, BOX_SIZE) called with the ambient generator in
\* state rng: the candidates are the values of the for loop, 1 to 9, and
\* Math.random is not called, so the generator is left in state rng.
fillRemainingWith(grid, rng) ==
    LET call == fillRemaining(grid, 0, BOX_SIZE)
    IN [returned |-> call.returned, grid |-> call.grid, rng |-> rng]

\* The grid returned (the result of fillRemaining is not looked at) and the
\* generator's state afterwards.
generateCompleteSolution(rng) ==
    LET d == fillDiagonalBoxes(createEmptyGrid, rng)
    IN [grid |-> fillRemaining(d.grid, 0, BOX_SIZE).grid, rng |-> d.rng]

(***************************************************************************)
(* SudokuEngine.generatePuzzle                                             *)
(***************************************************************************)
Difficulty == {"easy", "medium", "hard"}

getCellsToRemove(difficulty) ==
    CASE difficulty = "easy" -> 40
      [] difficulty = "medium" -> 50
      [] difficulty = "hard" -> 60
      [] OTHER -> 40

getAllPositions == [k \in AllCells |-> PosOf(k)]

\* The loop of generatePuzzle without the break on removed >= cellsToRemove
removeDone_ignoresTarget(s) ==
    s.idx >= Length(s.shuffledPositions)

\* The removal loop of generatePuzzle: idx counts the positions already taken
\* from shuffledPositions.
removeDone(s) ==
    s.idx >= Length(s.shuffledPositions) \/ s.removed >= s.cellsToRemove

\* The loop iteration without the else branch that restores the backup
removeStep_noRestore(s) ==
    LET pos == s.shuffledPositions[s.idx]
        cleared == [s.puzzle EXCEPT ![pos.row][pos.col] = null]
    IN IF hasUniqueSolution(cleared)
       THEN [s EXCEPT !.puzzle = cleared, !.removed = @ + 1, !.idx = @ + 1]
       ELSE [s EXCEPT !.puzzle = cleared, !.idx = @ + 1]

\* The loop iteration leaving the loop at the first cell it has to restore
removeStep_stopsOnReject(s) ==
    LET pos == s.shuffledPositions[s.idx]
        backup == s.puzzle[pos.row][pos.col]
        cleared == [s.puzzle EXCEPT ![pos.row][pos.col] = null]
    IN IF hasUniqueSolution(cleared)
       THEN [s EXCEPT !.puzzle = cleared, !.removed = @ + 1, !.idx = @ + 1]
       ELSE [s EXCEPT !.puzzle = [cleared EXCEPT ![pos.row][pos.col] = backup],
                      !.idx = Length(s.shuffledPositions)]

\* One iteration of the loop: clear the cell, keep it cleared if the puzzle
\* still has a unique solution, restore the backup otherwise.
removeStep(s) ==
    LET pos == s.shuffledPositions[s.idx]
        backup == s.puzzle[pos.row][pos.col]
        cleared == [s.puzzle EXCEPT ![pos.row][pos.col] = null]
    IN IF hasUniqueSolution(cleared)
       THEN [s EXCEPT !.puzzle = cleared, !.removed = @ + 1, !.idx = @ + 1]
       ELSE [s EXCEPT !.puzzle = [cleared EXCEPT ![pos.row][pos.col] = backup],
                      !.idx = @ + 1]

RECURSIVE removeRun(_, _)
removeRun(s, k) ==
    IF removeDone(s) THEN s
    ELSE IF k = 0 THEN removeStep(s)
    ELSE LET s1 == removeRun(s, k - 1)
             s2 == removeRun(s1, k - 1)
             s3 == removeRun(s2, k - 1)
             s4 == removeRun(s3, k - 1)
             s5 == removeRun(s4, k - 1)
             s6 == removeRun(s5, k - 1)
             s7 == removeRun(s6, k - 1)
             s8 == removeRun(s7, k - 1)
         IN <<s1, s2, s3, s4, s5, s6, s7, s8>>[8]

\* generatePuzzle up to the loop: solution, puzzle = clone, shuffled positions.
removeInit(difficulty, rng) ==
    LET sol == generateCompleteSolution(rng)
        shuffle == shuffleArray(getAllPositions, sol.rng)
    IN [solution |-> sol.grid, puzzle |-> sol.grid,
        cellsToRemove |-> getCellsToRemove(difficulty),
        shuffledPositions |-> shuffle.shuffled,
        removed |-> 0, idx |-> 0, rng |-> shuffle.rng]

\* generatePuzzle(difficulty) with the ambient generator in state rng; the
\* state in which it leaves the generator is returned with the pair.
generatePuzzle(difficulty, rng) ==
    LET s == removeRun(removeInit(difficulty, rng), RunDepth)
    IN [puzzle |-> s.puzzle, solution |-> s.solution, rng |-> s.rng]

(***************************************************************************)
(* GameManager.  An operation is an operator from the manager and its      *)
(* environment (a record w of the fields below) to the same afterwards.    *)
(***************************************************************************)
NoData == [none |-> TRUE]
NoTimer == 0

World ==
    [gameData |-> gameData, gameState |-> gameState, startTime |-> startTime,
     pausedTime |-> pausedTime, timerInterval |-> timerInterval,
     timers |-> timers, events |-> events, result |-> result]

\* The state of a new GameManager(), before any call
Constructed ==
    [gameData |-> NoData, gameState |-> "menu", startTime |-> 0, pausedTime |-> 0,
     timerInterval |-> NoTimer, timers |-> {}, events |-> <<>>,
     result |-> [op |-> "constructor", args |-> <<>>, from |-> "menu",
                 returned |-> "void", value |-> <<>>]]

\* A method is called with args in state w.gameState: the listener has seen
\* nothing of this call yet.
Enter(w, op, args) ==
    [w EXCEPT !.events = <<>>,
              !.result = [op |-> op, args |-> args, from |-> w.gameState,
                          returned |-> "pending", value |-> <<>>]]

\* A registered callback is invoked: the listener sees which one, the state
\* the manager is in at that moment (gameState, the isCompleted flag of the
\* session, the handle of the running interval), and the number passed (the
\* elapsed time of a time update or a completion, the number of conflicts of
\* a validation).
Emit(w, type, value) ==
    [w EXCEPT !.events =
        Append(@, [type |-> type, state |-> w.gameState, value |-> value,
                   isCompleted |-> w.gameData # NoData /\ w.gameData.isCompleted,
                   timerInterval |-> w.timerInterval])]

\* The method returns (or throws) to its caller; a returned object is value.
Return(w, returned) == [w EXCEPT !.result.returned = returned]
ReturnValue(w, value) ==
    [w EXCEPT !.result.returned = "object", !.result.value = value]

setGameState(w, state) ==
    Emit([w EXCEPT !.gameState = state], "onGameStateChange", 0)

stopTimer(w) ==
    IF w.timerInterval # NoTimer
    THEN [w EXCEPT !.timers = @ \ {w.timerInterval}, !.timerInterval = NoTimer]
    ELSE w

\* startTimer without the call of stopTimer that clears the existing timer
startTimer_noStop(w) ==
    LET used == w.timers
        handle == CHOOSE h \in 1..(Cardinality(used) + 1) :
                      h \notin used /\ \A g \in 1..(h - 1) : g \in used
    IN [w EXCEPT !.timers = @ \cup {handle}, !.timerInterval = handle]

\* setInterval returns a handle that no live interval has: here the least
\* positive one.
startTimer(w) ==
    LET stopped == stopTimer(w)
        used == stopped.timers
        handle == CHOOSE h \in 1..(Cardinality(used) + 1) :
                      h \notin used /\ \A g \in 1..(h - 1) : g \in used
    IN [stopped EXCEPT !.timers = @ \cup {handle}, !.timerInterval = handle]

getCurrentTimeElapsed(w, time) ==
    IF w.startTime = 0 THEN 0 ELSE (time - w.startTime) \div 1000

\* validateGame with a session: notifies the listener (the result is
\* validateGrid(w.gameData.grid)).
validateGame(w) ==
    IF w.gameData = NoData THEN w
    ELSE LET r == validateGrid(w.gameData.grid)
         IN Emit(w, "onValidationUpdate", Cardinality(r.conflicts))

\* completeGame without the call of setGameState
completeGame_noStateChange(w, time) ==
    IF w.gameData = NoData THEN w
    ELSE LET w1 == [w EXCEPT !.gameData.isCompleted = TRUE,
                             !.gameData.timeElapsed = getCurrentTimeElapsed(w, time)]
             w3 == stopTimer(w1)
         IN Emit(w3, "onGameComplete", w3.gameData.timeElapsed)

\* completeGame without the call of stopTimer
completeGame_noStopTimer(w, time) ==
    IF w.gameData = NoData THEN w
    ELSE LET w1 == [w EXCEPT !.gameData.isCompleted = TRUE,
                             !.gameData.timeElapsed = getCurrentTimeElapsed(w, time)]
             w2 == setGameState(w1, "completed")
         IN Emit(w2, "onGameComplete", w2.gameData.timeElapsed)

\* completeGame invoking onGameComplete before the state change and stopTimer
completeGame_notifiesFirst(w, time) ==
    IF w.gameData = NoData THEN w
    ELSE LET w1 == [w EXCEPT !.gameData.isCompleted = TRUE,
                             !.gameData.timeElapsed = getCurrentTimeElapsed(w, time)]
             w2 == Emit(w1, "onGameComplete", w1.gameData.timeElapsed)
             w3 == setGameState(w2, "completed")
         IN stopTimer(w3)

completeGame(w, time) ==
    IF w.gameData = NoData THEN w
    ELSE LET w1 == [w EXCEPT !.gameData.isCompleted = TRUE,
                             !.gameData.timeElapsed = getCurrentTimeElapsed(w, time)]
             w2 == setGameState(w1, "completed")
             w3 == stopTimer(w2)
         IN Emit(w3, "onGameComplete", w3.gameData.timeElapsed)

\* startNewGame(difficulty), with generated = generatePuzzle(difficulty)
startNewGame(w0, time, difficulty, generated) ==
    LET w == Enter(w0, "startNewGame", <<difficulty>>)
        w1 == [w EXCEPT !.gameData =
                  [id |-> <<"game", time, RandomBelow(generated.rng, 65537)>>,
                   grid |-> generated.puzzle,
                   solution |-> generated.solution,
                   originalGrid |-> generated.puzzle,
                   difficulty |-> difficulty,
                   timeElapsed |-> 0,
                   moveHistory |-> <<>>,
                   isCompleted |-> FALSE,
                   createdAt |-> time],
                !.startTime = time,
                !.pausedTime = 0]
        w2 == setGameState(w1, "playing")
        w3 == startTimer(w2)
        w4 == Emit(w3, "onGridUpdate", 0)
        w5 == validateGame(w4)
    IN Return(w5, "void")

\* makeMove on a grid that shares its rows with originalGrid (no cloneGrid)
makeMove_aliasedOriginal(w0, time, row, col, value) ==
    LET w == Enter(w0, "makeMove", <<row, col, value>>)
    IN IF w.gameData = NoData \/ w.gameState # "playing"
       THEN Return(w, "false")
       ELSE IF row \notin Idx
       THEN Return(w, "TypeError")
       ELSE IF col \notin Idx
       THEN Return(w, "false")
       ELSE IF w.gameData.originalGrid[row][col] # null
       THEN Return(w, "false")
       ELSE LET previousValue == w.gameData.grid[row][col]
                move == [position |-> [row |-> row, col |-> col],
                         previousValue |-> previousValue,
                         newValue |-> value,
                         timestamp |-> time]
                w1 == [w EXCEPT !.gameData.grid[row][col] = value,
                                !.gameData.originalGrid[row][col] = value,
                                !.gameData.moveHistory = Append(@, move)]
                w2 == Emit(w1, "onGridUpdate", 0)
                w3 == validateGame(w2)
                validationResult == validateGrid(w1.gameData.grid)
            IN IF validationResult.isCompleted
               THEN Return(completeGame(w3, time), "true")
               ELSE Return(w3, "true")

\* makeMove testing only that a session exists, not that it is being played
makeMove_noStateCheck(w0, time, row, col, value) ==
    LET w == Enter(w0, "makeMove", <<row, col, value>>)
    IN IF w.gameData = NoData
       THEN Return(w, "false")
       ELSE IF row \notin Idx
       THEN Return(w, "TypeError")
       ELSE IF col \notin Idx
       THEN Return(w, "false")
       ELSE IF w.gameData.originalGrid[row][col] # null
       THEN Return(w, "false")
       ELSE LET previousValue == w.gameData.grid[row][col]
                move == [position |-> [row |-> row, col |-> col],
                         previousValue |-> previousValue,
                         newValue |-> value,
                         timestamp |-> time]
                w1 == [w EXCEPT !.gameData.grid[row][col] = value,
                                !.gameData.moveHistory = Append(@, move)]
                w2 == Emit(w1, "onGridUpdate", 0)
                w3 == validateGame(w2)
                validationResult == validateGrid(w1.gameData.grid)
            IN IF validationResult.isCompleted
               THEN Return(completeGame(w3, time), "true")
               ELSE Return(w3, "true")

\* makeMove without the test of originalGrid
makeMove_noGivenCheck(w0, time, row, col, value) ==
    LET w == Enter(w0, "makeMove", <<row, col, value>>)
    IN IF w.gameData = NoData \/ w.gameState # "playing"
       THEN Return(w, "false")
       ELSE IF row \notin Idx
       THEN Return(w, "TypeError")
       ELSE IF col \notin Idx
       THEN Return(w, "false")
       ELSE LET previousValue == w.gameData.grid[row][col]
                move == [position |-> [row |-> row, col |-> col],
                         previousValue |-> previousValue,
                         newValue |-> value,
                         timestamp |-> time]
                w1 == [w EXCEPT !.gameData.grid[row][col] = value,
                                !.gameData.moveHistory = Append(@, move)]
                w2 == Emit(w1, "onGridUpdate", 0)
                w3 == validateGame(w2)
                validationResult == validateGrid(w1.gameData.grid)
            IN IF validationResult.isCompleted
               THEN Return(completeGame(w3, time), "true")
               ELSE Return(w3, "true")

makeMove(w0, time, row, col, value) ==
    LET w == Enter(w0, "makeMove", <<row, col, value>>)
    IN IF w.gameData = NoData \/ w.gameState # "playing"
       THEN Return(w, "false")
       ELSE IF row \notin Idx
       THEN \* originalGrid[row] is undefined: reading [col] of it throws
            Return(w, "TypeError")
       ELSE IF col \notin Idx
       THEN \* originalGrid[row][col] is undefined, which is !== null
            Return(w, "false")
       ELSE IF w.gameData.originalGrid[row][col] # null
       THEN Return(w, "false")
       ELSE LET previousValue == w.gameData.grid[row][col]
                move == [position |-> [row |-> row, col |-> col],
                         previousValue |-> previousValue,
                         newValue |-> value,
                         timestamp |-> time]
                w1 == [w EXCEPT !.gameData.grid[row][col] = value,
                                !.gameData.moveHistory = Append(@, move)]
                w2 == Emit(w1, "onGridUpdate", 0)
                w3 == validateGame(w2)
                validationResult == validateGrid(w1.gameData.grid)
            IN IF validationResult.isCompleted
               THEN Return(completeGame(w3, time), "true")
               ELSE Return(w3, "true")

\* undoMove testing the history only after notifying the listeners
undoMove_noEmptyCheck(w0) ==
    LET w == Enter(w0, "undoMove", <<>>)
    IN IF w.gameData = NoData
       THEN Return(w, "false")
       ELSE IF Len(w.gameData.moveHistory) = 0
       THEN Return(validateGame(Emit(w, "onGridUpdate", 0)), "false")
       ELSE LET lastMove == w.gameData.moveHistory[Len(w.gameData.moveHistory)]
                row == lastMove.position.row
                col == lastMove.position.col
                w1 == [w EXCEPT !.gameData.moveHistory = SubSeq(@, 1, Len(@) - 1),
                                !.gameData.grid[row][col] = lastMove.previousValue]
                w2 == Emit(w1, "onGridUpdate", 0)
                w3 == validateGame(w2)
            IN Return(w3, "true")

\* undoMove writing the previous value back without popping the move
undoMove_keepsHistory(w0) ==
    LET w == Enter(w0, "undoMove", <<>>)
    IN IF w.gameData = NoData
       THEN Return(w, "false")
       ELSE IF Len(w.gameData.moveHistory) = 0
       THEN Return(w, "false")
       ELSE LET lastMove == w.gameData.moveHistory[Len(w.gameData.moveHistory)]
                row == lastMove.position.row
                col == lastMove.position.col
                w1 == [w EXCEPT !.gameData.grid[row][col] = lastMove.previousValue]
                w2 == Emit(w1, "onGridUpdate", 0)
                w3 == validateGame(w2)
            IN Return(w3, "true")

\* undoMove writing back the value the move set, not the one it replaced
undoMove_restoresNewValue(w0) ==
    LET w == Enter(w0, "undoMove", <<>>)
    IN IF w.gameData = NoData
       THEN Return(w, "false")
       ELSE IF Len(w.gameData.moveHistory) = 0
       THEN Return(w, "false")
       ELSE LET lastMove == w.gameData.moveHistory[Len(w.gameData.moveHistory)]
                row == lastMove.position.row
                col == lastMove.position.col
                w1 == [w EXCEPT !.gameData.moveHistory = SubSeq(@, 1, Len(@) - 1),
                                !.gameData.grid[row][col] = lastMove.newValue]
                w2 == Emit(w1, "onGridUpdate", 0)
                w3 == validateGame(w2)
            IN Return(w3, "true")

undoMove(w0) ==
    LET w == Enter(w0, "undoMove", <<>>)
    IN IF w.gameData = NoData
       THEN Return(w, "false")
       ELSE IF Len(w.gameData.moveHistory) = 0
       THEN Return(w, "false")
       ELSE LET lastMove == w.gameData.moveHistory[Len(w.gameData.moveHistory)]
                row == lastMove.position.row
                col == lastMove.position.col
                w1 == [w EXCEPT !.gameData.moveHistory = SubSeq(@, 1, Len(@) - 1),
                                !.gameData.grid[row][col] = lastMove.previousValue]
                w2 == Emit(w1, "onGridUpdate", 0)
                w3 == validateGame(w2)
            IN Return(w3, "true")

\* pauseGame without the test of the state
pauseGame_noStateCheck(w0, time) ==
    LET w == Enter(w0, "pauseGame", <<>>)
        w1 == setGameState(w, "paused")
        w2 == [w1 EXCEPT !.pausedTime = time]
    IN Return(stopTimer(w2), "void")

pauseGame(w0, time) ==
    LET w == Enter(w0, "pauseGame", <<>>)
    IN IF w.gameState = "playing"
       THEN LET w1 == setGameState(w, "paused")
                w2 == [w1 EXCEPT !.pausedTime = time]
            IN Return(stopTimer(w2), "void")
       ELSE Return(w, "void")

\* resumeGame without the adjustment of the start time
resumeGame_noShift(w0, time) ==
    LET w == Enter(w0, "resumeGame", <<>>)
    IN IF w.gameState = "paused"
       THEN LET w1 == setGameState(w, "playing")
            IN Return(startTimer([w1 EXCEPT !.pausedTime = 0]), "void")
       ELSE Return(w, "void")

resumeGame(w0, time) ==
    LET w == Enter(w0, "resumeGame", <<>>)
    IN IF w.gameState = "paused"
       THEN LET w1 == setGameState(w, "playing")
                \* Adjust start time to account for pause duration
                w2 == IF w1.pausedTime > 0
                      THEN [w1 EXCEPT !.startTime = @ + (time - w1.pausedTime),
                                      !.pausedTime = 0]
                      ELSE w1
            IN Return(startTimer(w2), "void")
       ELSE Return(w, "void")

\* The empty cells of a grid in row-major order, as a set of indices, and the
\* one at (0-based) place i of that order.
EmptyCells(grid) == {k \in AllCells : grid[k \div GRID_SIZE][k % GRID_SIZE] = null}
NthOf(cells, i) == CHOOSE k \in cells : Cardinality({j \in cells : j < k}) = i

\* getHint choosing among all 81 cells, not among the empty ones
engineGetHint_anyCell(grid, solution, rng) ==
    LET emptyCells == EmptyCells(grid)
    IN IF Cardinality(emptyCells) = 0 THEN <<>>
       ELSE LET randomIndex == RandomBelow(rng, Cardinality(AllCells))
                pos == PosOf(NthOf(AllCells, randomIndex))
            IN <<pos.row, pos.col>>

\* SudokuEngine.getHint with the ambient generator in state rng; the result
\* is <<>> for null and <<row, col>> for a position.
engineGetHint(grid, solution, rng) ==
    LET emptyCells == EmptyCells(grid)
    IN IF Cardinality(emptyCells) = 0 THEN <<>>
       ELSE LET randomIndex == RandomBelow(rng, Cardinality(emptyCells))
                pos == PosOf(NthOf(emptyCells, randomIndex))
            IN <<pos.row, pos.col>>

\* GameManager.getHint
getHint(w0, rng) ==
    LET w == Enter(w0, "getHint", <<>>)
    IN IF w.gameData = NoData THEN Return(w, "null")
       ELSE LET hint == engineGetHint(w.gameData.grid, w.gameData.solution, rng)
            IN IF hint = <<>> THEN Return(w, "null") ELSE ReturnValue(w, hint)

\* dispose without the reset of gameState
dispose_keepsState(w0) ==
    LET w == Enter(w0, "dispose", <<>>)
        w1 == stopTimer(w)
    IN Return([w1 EXCEPT !.gameData = NoData], "void")

dispose(w0) ==
    LET w == Enter(w0, "dispose", <<>>)
        w1 == stopTimer(w)
    IN Return([w1 EXCEPT !.gameData = NoData, !.gameState = "menu"], "void")

\* The callback given to setInterval runs for a live interval.
timerCallback(w0, time) ==
    LET w == Enter(w0, "timer", <<>>)
    IN IF w.gameData # NoData /\ w.gameState = "playing"
       THEN LET timeElapsed == getCurrentTimeElapsed(w, time)
            IN Return(Emit([w EXCEPT !.gameData.timeElapsed = timeElapsed],
                           "onTimeUpdate", timeElapsed), "void")
       ELSE Return(w, "void")

(***************************************************************************)
(* Bounds of the exploration                                               *)
(***************************************************************************)
\* Seeds of the ambient random stream explored for puzzle generation
NumSeeds == 2
Seeds == {390 + 125 * i : i \in 0..(NumSeeds - 1)}

\* Seeds explored for the diagonal boxes of generateCompleteSolution
NumFillSeeds == 6
FillSeeds == 0..(NumFillSeeds - 1)

\* The clock: Date.now() at construction, the step by which it is advanced,
\* and the number of steps explored.
StartClock == 1000
ClockStep == 500
MaxClockSteps == 3

\* The variables hold the manager and environment w.
Holds(w) ==
    /\ gameData = w.gameData
    /\ gameState = w.gameState
    /\ startTime = w.startTime
    /\ pausedTime = w.pausedTime
    /\ timerInterval = w.timerInterval
    /\ timers = w.timers
    /\ events = w.events
    /\ result = w.result

ManagerConstructed ==
    /\ Holds(Constructed)
    /\ now = StartClock
    /\ completions = 0
    /\ playedMs = 0

(***************************************************************************)
(* Storage.  AsyncStorage holds one text per key.  A text is modelled by   *)
(* what `if (text)` and JSON.parse make of it: no item (getItem resolves   *)
(* to null), the empty text, a text that is not JSON, or the text of a     *)
(* value.  A JavaScript value is a record with a type field.               *)
(***************************************************************************)
NoItem == [syntax |-> "none"]
EmptyText == [syntax |-> "empty"]
InvalidText == [syntax |-> "invalid"]

JsNull == [type |-> "null"]
JsNumber(n) == [type |-> "number", n |-> n]
JsObject(keys) == [type |-> "object", keys |-> keys]
JsArray(items) == [type |-> "array", items |-> items]

\* JSON.stringify(value), for values made of finite numbers, booleans, strings,
\* arrays and plain objects
JSONstringify(value) == [syntax |-> "json", value |-> value]

\* JSON.parse(text): the value, or a SyntaxError thrown
JSONparse(text) ==
    IF text.syntax = "json" THEN [threw |-> FALSE, value |-> text.value]
    ELSE [threw |-> TRUE, value |-> JsNull]

\* if (text): null and "" are falsy
Truthy(text) == text.syntax \notin {"none", "empty"}

\* The fields of a GameData object
GameDataKeys ==
    {"id", "grid", "solution", "originalGrid", "difficulty", "timeElapsed",
     "moveHistory", "isCompleted", "createdAt"}

\* AsyncStorage with no item stored
EmptyStorage == [GAME_STATS |-> NoItem, CURRENT_GAME |-> NoItem, HIGH_SCORES |-> NoItem]

\* loadCurrentGame(): what the returned promise settles to.  rejects says
\* whether AsyncStorage.getItem rejects.
loadCurrentGame(st, rejects) ==
    IF rejects THEN [outcome |-> "resolved", value |-> JsNull]
    ELSE LET gameJson == st.CURRENT_GAME
         IN IF Truthy(gameJson)
            THEN IF JSONparse(gameJson).threw
                 THEN [outcome |-> "resolved", value |-> JsNull]
                 ELSE [outcome |-> "resolved", value |-> JSONparse(gameJson).value]
            ELSE [outcome |-> "resolved", value |-> JsNull]

\* getHighScores(), with AsyncStorage.getItem resolving
getHighScores(st) ==
    LET scoresJson == st.HIGH_SCORES
    IN IF Truthy(scoresJson)
       THEN IF JSONparse(scoresJson).threw THEN <<>>
            ELSE JSONparse(scoresJson).value.items
       ELSE <<>>

\* array.sort((a, b) => a.timeElapsed - b.timeElapsed): stable, ascending
sortByTimeElapsed(array) ==
    LET n == Len(array)
        before(i) == {j \in 1..n : \/ array[j].timeElapsed < array[i].timeElapsed
                                     \/ /\ array[j].timeElapsed = array[i].timeElapsed
                                        /\ j < i}
    IN [k \in 1..n |-> array[CHOOSE i \in 1..n : Cardinality(before(i)) = k - 1]]

\* array.slice(0, end)
slice(array, end) == SubSeq(array, 1, IF Len(array) < end THEN Len(array) ELSE end)

\* addHighScore keeping every score of the difficulty, not the first ten
addHighScore_noSlice(st, data) ==
    IF ~data.isCompleted THEN st
    ELSE LET currentScores == getHighScores(st)
             newScores == Append(currentScores, data)
             same(game) == game.isCompleted /\ game.difficulty = data.difficulty
             other(game) == game.difficulty # data.difficulty
             sortedScores == sortByTimeElapsed(SelectSeq(newScores, same))
             otherScores == SelectSeq(newScores, other)
             allScores == otherScores \o sortedScores
         IN [st EXCEPT !.HIGH_SCORES = JSONstringify(JsArray(allScores))]

\* addHighScore(gameData), with AsyncStorage resolving: the store afterwards
addHighScore(st, data) ==
    IF ~data.isCompleted THEN st
    ELSE LET currentScores == getHighScores(st)
             newScores == Append(currentScores, data)
             same(game) == game.isCompleted /\ game.difficulty = data.difficulty
             other(game) == game.difficulty # data.difficulty
             sortedScores == slice(sortByTimeElapsed(SelectSeq(newScores, same)), 10)
             otherScores == SelectSeq(newScores, other)
             allScores == otherScores \o sortedScores
         IN [st EXCEPT !.HIGH_SCORES = JSONstringify(JsArray(allScores))]

\* The body of addHighScore between its read and its write: the list stored
\* for a completed game, from the list that getHighScores returned.
highScoresWith(currentScores, data) ==
    LET newScores == Append(currentScores, data)
        same(game) == game.isCompleted /\ game.difficulty = data.difficulty
        other(game) == game.difficulty # data.difficulty
        sortedScores == slice(sortByTimeElapsed(SelectSeq(newScores, same)), 10)
        otherScores == SelectSeq(newScores, other)
    IN otherScores \o sortedScores

\* Storage.DEFAULT_STATS.  winRate is a quotient times 100, kept as its
\* numerator and denominator; a best time is null or a number.
DEFAULT_STATS ==
    [type |-> "object",
     gamesPlayed |-> 0,
     gamesCompleted |-> 0,
     winRate |-> [numerator |-> 0, denominator |-> 1],
     averageTime |-> 0,
     bestTimes |-> [d \in Difficulty |-> JsNull],
     totalPlayTime |-> 0]

\* getGameStats(), with AsyncStorage.getItem resolving to text
parseGameStats(text) ==
    IF Truthy(text)
    THEN IF JSONparse(text).threw THEN DEFAULT_STATS ELSE JSONparse(text).value
    ELSE DEFAULT_STATS

getGameStats(st) == parseGameStats(st.GAME_STATS)

\* The body of updateGameStats between its read and its write: updatedStats
\* from the statistics that getGameStats returned.
updatedGameStats(currentStats, data) ==
    LET gamesPlayed == currentStats.gamesPlayed + 1
        gamesCompleted == IF data.isCompleted THEN currentStats.gamesCompleted + 1
                          ELSE currentStats.gamesCompleted
        totalPlayTime == currentStats.totalPlayTime + data.timeElapsed
        currentBestTime == currentStats.bestTimes[data.difficulty]
    IN [type |-> "object",
        gamesPlayed |-> gamesPlayed,
        gamesCompleted |-> gamesCompleted,
        winRate |-> IF gamesPlayed > 0
                    THEN [numerator |-> gamesCompleted * 100, denominator |-> gamesPlayed]
                    ELSE [numerator |-> 0, denominator |-> 1],
        averageTime |-> IF gamesCompleted > 0 THEN totalPlayTime \div gamesCompleted ELSE 0,
        bestTimes |-> IF data.isCompleted
                         /\ (\/ currentBestTime = JsNull
                             \/ data.timeElapsed < currentBestTime.n)
                      THEN [currentStats.bestTimes EXCEPT
                               ![data.difficulty] = JsNumber(data.timeElapsed)]
                      ELSE currentStats.bestTimes,
        totalPlayTime |-> totalPlayTime]

\* updateGameStats(gameData), with AsyncStorage resolving and no other call
\* between its read and its write: the store afterwards
updateGameStats(st, data) ==
    [st EXCEPT !.GAME_STATS = JSONstringify(updatedGameStats(getGameStats(st), data))]

\* resetGameStats(), with AsyncStorage resolving
resetGameStats(st) == [st EXCEPT !.GAME_STATS = JSONstringify(DEFAULT_STATS)]

\* The difficulties and elapsed times of the games passed to addHighScore
ScoreDifficulties == {"easy", "medium"}
NumScoreTimes == 2
ScoreTimes == {100 * i : i \in 1..NumScoreTimes}

\* No Storage call has been made.  added[d] lists in ascending order the
\* timeElapsed of the completed games of difficulty d passed to addHighScore.
NoStorageCall ==
    [op |-> "none", outcome |-> "none", value |-> JsNull, calls |-> 0,
     added |-> [d \in ScoreDifficulties |-> <<>>]]

(***************************************************************************)
(* AdFrequencyManager and showInterstitialWithFrequencyControl.  awaiting  *)
(* counts the calls suspended at `await showInterstitialAd()`; completed   *)
(* and shown are the history: games completed so far, and for each         *)
(* interstitial shown the time and the games completed by then.            *)
(***************************************************************************)
MIN_TIME_BETWEEN_ADS == 180000
GAMES_BETWEEN_ADS == 3

AdsConstructed ==
    [lastInterstitialShown |-> 0, gamesPlayedSinceLastAd |-> 0,
     awaiting |-> 0, completed |-> 0, shown |-> <<>>]

shouldShowInterstitialAd(a, time) ==
    LET timeSinceLastAd == time - a.lastInterstitialShown
    IN /\ timeSinceLastAd > MIN_TIME_BETWEEN_ADS
       /\ a.gamesPlayedSinceLastAd >= GAMES_BETWEEN_ADS

onGameCompleted(a) ==
    [a EXCEPT !.gamesPlayedSinceLastAd = @ + 1, !.completed = @ + 1]

onInterstitialShown(a, time) ==
    [a EXCEPT !.lastInterstitialShown = time, !.gamesPlayedSinceLastAd = 0]

\* showInterstitialWithFrequencyControl up to its await: it returns false, or
\* calls interstitialAd.show() and is suspended.  ready is what
\* isInterstitialAdReady() returns.
showInterstitialStart(a, time, ready) ==
    IF ~shouldShowInterstitialAd(a, time) THEN a
    ELSE IF ~ready THEN a
    ELSE [a EXCEPT !.awaiting = @ + 1]

\* showInterstitialWithFrequencyControl from its await on: success is what
\* showInterstitialAd() resolved to.
showInterstitialResume(a, time, success) ==
    LET resumed == [a EXCEPT !.awaiting = @ - 1]
    IN IF success
       THEN onInterstitialShown(
                [resumed EXCEPT !.shown = Append(@, [at |-> time, completed |-> a.completed])],
                time)
       ELSE resumed

\* The services before any call
ServicesIdle ==
    /\ storage = EmptyStorage
    /\ storageResult = NoStorageCall
    /\ ads = AdsConstructed

(***************************************************************************)
(* SpecFill: generateCompleteSolution, one statement of fillRemaining per  *)
(* step, for the diagonal boxes drawn by each seed of FillSeeds.           *)
(***************************************************************************)
FillIdle == [pc |-> "idle"]

\* No validation call is being made.
ProbeIdle == [pc |-> "idle"]

FillInit ==
    /\ fill \in {fillInit(fillDiagonalBoxes(createEmptyGrid, seed).grid, 0, BOX_SIZE) : seed \in FillSeeds}
    /\ gen = [pc |-> "idle"]
    /\ probe = ProbeIdle
    /\ ServicesIdle
    /\ ManagerConstructed

\* One statement of the running fillRemaining call
FillStep ==
    /\ fill.pc \in {"call", "loop", "ret"}
    /\ ~fillDone(fill)
    /\ fill' = fillStep(fill)
    /\ UNCHANGED <<gen, probe, serviceVars, managerVars>>

\* The outermost fillRemaining has returned: generateCompleteSolution returns grid
FillReturn ==
    /\ fill.pc = "ret"
    /\ fillDone(fill)
    /\ fill' = [pc |-> "returned", grid |-> fill.grid, returned |-> fill.returned]
    /\ UNCHANGED <<gen, probe, serviceVars, managerVars>>

FillNext == FillStep \/ FillReturn

SpecFill == FillInit /\ [][FillNext]_vars

(***************************************************************************)
(* SpecGen: generatePuzzle, one iteration of the removal loop per step,    *)
(* followed by solvePuzzle on a copy of the returned puzzle.               *)
(***************************************************************************)
GenInit ==
    /\ gen \in {[pc |-> "start", difficulty |-> d, seed |-> seed] :
                  d \in Difficulty, seed \in Seeds}
    /\ fill = FillIdle
    /\ probe = ProbeIdle
    /\ ServicesIdle
    /\ ManagerConstructed

\* generatePuzzle up to the removal loop
GenerateStart ==
    /\ gen.pc = "start"
    /\ gen' = [pc |-> "loop", difficulty |-> gen.difficulty, seed |-> gen.seed,
               loop |-> removeInit(gen.difficulty, gen.seed)]
    /\ UNCHANGED <<fill, probe, serviceVars, managerVars>>

\* One iteration of the removal loop
RemoveIteration ==
    /\ gen.pc = "loop"
    /\ ~removeDone(gen.loop)
    /\ gen' = [gen EXCEPT !.loop = removeStep(gen.loop)]
    /\ UNCHANGED <<fill, probe, serviceVars, managerVars>>

\* The loop ends (target reached or positions exhausted): return { puzzle, solution }
GenerateReturn ==
    /\ gen.pc = "loop"
    /\ removeDone(gen.loop)
    /\ gen' = [gen EXCEPT !.pc = "returned"]
    /\ UNCHANGED <<fill, probe, serviceVars, managerVars>>

\* solvePuzzle applied to a copy of the returned puzzle
SolveGenerated ==
    /\ gen.pc = "returned"
    /\ gen' = [pc |-> "solved", difficulty |-> gen.difficulty, seed |-> gen.seed,
               loop |-> gen.loop, solved |-> solvePuzzle(gen.loop.puzzle)]
    /\ UNCHANGED <<fill, probe, serviceVars, managerVars>>

\* The difficulties for which the caller generates a second puzzle
AgainDifficulties == {"easy", "medium"}

\* generatePuzzle called a second time with the same difficulty: it takes no
\* generator, and Math.random is in the state the first call left it in.
GenerateAgain ==
    /\ gen.pc = "returned"
    /\ gen.difficulty \in AgainDifficulties
    /\ gen' = [pc |-> "again", difficulty |-> gen.difficulty, seed |-> gen.seed,
               loop |-> gen.loop,
               again |-> generatePuzzle(gen.difficulty, gen.loop.rng)]
    /\ UNCHANGED <<fill, probe, serviceVars, managerVars>>

GenNext ==
    \/ GenerateStart
    \/ RemoveIteration
    \/ GenerateReturn
    \/ SolveGenerated
    \/ GenerateAgain

SpecGen == GenInit /\ [][GenNext]_vars

(***************************************************************************)
(* SpecValidate: a caller of validateGrid and isValidMove.  The caller     *)
(* holds a SudokuGrid (empty, or a generated complete solution), writes    *)
(* cell values into it, and then makes one call; probe records the call    *)
(* and what it returned.                                                   *)
(***************************************************************************)
\* The most cells the caller writes before its call
MaxWrites == 3

\* The generator states from which the caller's complete grid is drawn
ProbeSeeds == {CHOOSE seed \in FillSeeds : \A other \in FillSeeds : seed <= other}

\* Four cells of a complete grid, the corners of a rectangle lying in exactly
\* two boxes, that hold a b / b a: with the four cells cleared the grid has
\* the completion a b / b a and the completion b a / a b.
Rectangles(grid) ==
    {q \in Idx \X Idx \X Idx \X Idx :
        /\ q[1] < q[3] /\ q[2] < q[4]
        /\ (q[1] \div BOX_SIZE = q[3] \div BOX_SIZE) # (q[2] \div BOX_SIZE = q[4] \div BOX_SIZE)
        /\ grid[q[1]][q[2]] = grid[q[3]][q[4]]
        /\ grid[q[1]][q[4]] = grid[q[3]][q[2]]}

\* The four corners of a rectangle
Corners(q) == {<<q[1], q[2]>>, <<q[1], q[4]>>, <<q[3], q[2]>>, <<q[3], q[4]>>}

\* Two such rectangles of grid that share no cell
TwoRectangles(grid) ==
    CHOOSE qs \in SUBSET Rectangles(grid) :
        /\ Cardinality(qs) = 2
        /\ \A q1 \in qs, q2 \in qs : q1 # q2 => Corners(q1) \cap Corners(q2) = {}

\* grid with the corners of the rectangles of qs cleared
ClearRectangles(grid, qs) ==
    [r \in Idx |-> [c \in Idx |->
        IF \E q \in qs : <<r, c>> \in Corners(q) THEN null ELSE grid[r][c]]]

\* The grids the caller starts from: the empty grid, a generated complete
\* solution, and that solution with cells cleared as the removal loop of
\* generatePuzzle clears them, here so that it has two and four completions.
ProbeGrids ==
    {createEmptyGrid}
        \cup {generateCompleteSolution(seed).grid : seed \in ProbeSeeds}
        \cup UNION {LET grid == generateCompleteSolution(seed).grid
                        qs == TwoRectangles(grid)
                    IN {ClearRectangles(grid, {CHOOSE q \in qs : TRUE}),
                        ClearRectangles(grid, qs)} : seed \in ProbeSeeds}

\* The cells the caller writes and asks about: a corner, a cell of its row,
\* a cell of its column, a cell of its box in neither, and a cell that shares
\* no row, column or box with it.
ProbeCells == {<<0, 0>>, <<0, 5>>, <<4, 0>>, <<1, 1>>, <<GRID_SIZE - 1, GRID_SIZE - 1>>}

\* The values the caller writes and asks about (CellValue)
ProbeValues == {null, 1, 2}

\* The most empty cells of a grid handed to the backtracking searches
MaxSearchEmpty == 11

\* The greatest maxSolutions passed to findAllSolutions
MaxLimit == 3

ValidateInit ==
    /\ fill = FillIdle
    /\ gen = [pc |-> "idle"]
    /\ probe \in {[pc |-> "grid", grid |-> grid, writes |-> 0] : grid \in ProbeGrids}
    /\ ServicesIdle
    /\ ManagerConstructed

\* grid[row][col] = value, by the owner of the grid
ProbeWrite(row, col, value) ==
    /\ probe.pc = "grid"
    /\ probe.writes < MaxWrites
    /\ probe' = [probe EXCEPT !.grid[row][col] = value, !.writes = @ + 1]
    /\ UNCHANGED <<fill, gen, serviceVars, managerVars>>

\* SudokuEngine.validateGrid(grid)
ProbeValidateGrid ==
    /\ probe.pc = "grid"
    /\ probe' = [pc |-> "validated", grid |-> probe.grid,
                 returned |-> validateGrid(probe.grid)]
    /\ UNCHANGED <<fill, gen, serviceVars, managerVars>>

\* SudokuEngine.isValidMove(grid, row, col, num)
ProbeIsValidMove(row, col, num) ==
    /\ probe.pc = "grid"
    /\ probe' = [pc |-> "checked", grid |-> probe.grid,
                 row |-> row, col |-> col, num |-> num,
                 returned |-> isValidMove(probe.grid, row, col, num)]
    /\ UNCHANGED <<fill, gen, serviceVars, managerVars>>

\* SudokuEngine.solvePuzzle(grid), for grids with at most MaxSearchEmpty
\* empty cells; solved is the caller's grid after the call.
ProbeSolvePuzzle ==
    /\ probe.pc = "grid"
    /\ Cardinality(EmptyCells(probe.grid)) <= MaxSearchEmpty
    /\ LET call == solvePuzzle(probe.grid)
       IN probe' = [pc |-> "solved", grid |-> probe.grid,
                    returned |-> call.returned, solved |-> call.grid]
    /\ UNCHANGED <<fill, gen, serviceVars, managerVars>>

\* SudokuEngine.findAllSolutions(grid, [], maxSolutions), for grids with at
\* most MaxSearchEmpty empty cells; after is the grid passed in when the call
\* returns.
ProbeFindAllSolutions(maxSolutions) ==
    /\ probe.pc = "grid"
    /\ Cardinality(EmptyCells(probe.grid)) <= MaxSearchEmpty
    /\ LET s == findAllRun(findAllInit(probe.grid, <<>>, maxSolutions), RunDepth)
       IN probe' = [pc |-> "searched", grid |-> probe.grid,
                    maxSolutions |-> maxSolutions,
                    solutions |-> s.solutions, after |-> s.grid]
    /\ UNCHANGED <<fill, gen, serviceVars, managerVars>>

ValidateNext ==
    \/ \E pos \in ProbeCells : \E value \in ProbeValues : ProbeWrite(pos[1], pos[2], value)
    \/ ProbeValidateGrid
    \/ \E pos \in ProbeCells : \E num \in ProbeValues : ProbeIsValidMove(pos[1], pos[2], num)
    \/ ProbeSolvePuzzle
    \/ \E maxSolutions \in 1..MaxLimit : ProbeFindAllSolutions(maxSolutions)

SpecValidate == ValidateInit /\ [][ValidateNext]_vars

(***************************************************************************)
(* SpecStorage: a caller of Storage whose calls are awaited one after the  *)
(* other.  Each step is one call, from its start to the settling of the    *)
(* promise it returned.                                                    *)
(***************************************************************************)
\* The most addHighScore calls made
MaxAdds == 12

\* The texts found under CURRENT_GAME when the application starts: none, "",
\* a text that is not JSON, the texts of {}, 42 and null, of a GameData object
\* without its moveHistory, and of a GameData object.
StoredGameTexts ==
    {NoItem, EmptyText, InvalidText,
     JSONstringify(JsObject({})), JSONstringify(JsNumber(42)), JSONstringify(JsNull),
     JSONstringify(JsObject(GameDataKeys \ {"moveHistory"})),
     JSONstringify(JsObject(GameDataKeys))}

\* The games passed to addHighScore (the fields addHighScore reads)
ScoreGames ==
    [difficulty : ScoreDifficulties, timeElapsed : ScoreTimes, isCompleted : BOOLEAN]

StorageInit ==
    /\ fill = FillIdle
    /\ gen = [pc |-> "idle"]
    /\ probe = ProbeIdle
    /\ storage \in {[EmptyStorage EXCEPT !.CURRENT_GAME = text] : text \in StoredGameTexts}
    /\ storageResult = NoStorageCall
    /\ ads = AdsConstructed
    /\ ManagerConstructed

\* await Storage.loadCurrentGame()
LoadCurrentGame(rejects) ==
    /\ LET settled == loadCurrentGame(storage, rejects)
       IN storageResult' = [storageResult EXCEPT !.op = "loadCurrentGame",
                                                 !.outcome = settled.outcome,
                                                 !.value = settled.value]
    /\ UNCHANGED <<fill, gen, probe, storage, ads, managerVars>>

\* await Storage.saveCurrentGame(gameData)
SaveCurrentGame ==
    /\ storage' = [storage EXCEPT !.CURRENT_GAME = JSONstringify(JsObject(GameDataKeys))]
    /\ storageResult' = [storageResult EXCEPT !.op = "saveCurrentGame",
                                              !.outcome = "resolved", !.value = JsNull]
    /\ UNCHANGED <<fill, gen, probe, ads, managerVars>>

\* await Storage.clearCurrentGame()
ClearCurrentGame ==
    /\ storage' = [storage EXCEPT !.CURRENT_GAME = NoItem]
    /\ storageResult' = [storageResult EXCEPT !.op = "clearCurrentGame",
                                              !.outcome = "resolved", !.value = JsNull]
    /\ UNCHANGED <<fill, gen, probe, ads, managerVars>>

\* times with time put after the last element not greater than it
InsertAscending(times, time) ==
    LET k == Cardinality({i \in 1..Len(times) : times[i] <= time})
    IN SubSeq(times, 1, k) \o <<time>> \o SubSeq(times, k + 1, Len(times))

\* await Storage.addHighScore(game)
AddHighScore(game) ==
    /\ storageResult.calls < MaxAdds
    /\ storage' = addHighScore(storage, game)
    /\ storageResult' =
          [storageResult EXCEPT
              !.op = "addHighScore", !.outcome = "resolved", !.value = JsNull,
              !.calls = @ + 1,
              !.added[game.difficulty] =
                  IF game.isCompleted THEN InsertAscending(@, game.timeElapsed) ELSE @]
    /\ UNCHANGED <<fill, gen, probe, ads, managerVars>>

StorageNext ==
    \/ \E rejects \in BOOLEAN : LoadCurrentGame(rejects)
    \/ SaveCurrentGame
    \/ ClearCurrentGame
    \/ \E game \in ScoreGames : AddHighScore(game)

SpecStorage == StorageInit /\ [][StorageNext]_vars

(***************************************************************************)
(* SpecStats: a caller of the statistics methods of Storage whose calls    *)
(* are awaited one after the other.  storageResult keeps, in games, the    *)
(* games passed to updateGameStats since the statistics were the default.  *)
(***************************************************************************)
\* The most updateGameStats calls made
MaxStatCalls == 4

\* The texts found under GAME_STATS when the application starts: all of
\* them make getGameStats return the default statistics.
NoStatsTexts == {NoItem, EmptyText, InvalidText}

StatsInit ==
    /\ fill = FillIdle
    /\ gen = [pc |-> "idle"]
    /\ probe = ProbeIdle
    /\ storage \in {[EmptyStorage EXCEPT !.GAME_STATS = text] : text \in NoStatsTexts}
    /\ storageResult = [op |-> "none", value |-> JsNull, calls |-> 0, games |-> <<>>]
    /\ ads = AdsConstructed
    /\ ManagerConstructed

\* await Storage.updateGameStats(game)
UpdateGameStats(game) ==
    /\ storageResult.calls < MaxStatCalls
    /\ storage' = updateGameStats(storage, game)
    /\ storageResult' = [op |-> "updateGameStats", value |-> JsNull,
                         calls |-> storageResult.calls + 1,
                         games |-> Append(storageResult.games, game)]
    /\ UNCHANGED <<fill, gen, probe, ads, managerVars>>

\* await Storage.getGameStats()
GetGameStats ==
    /\ storageResult' = [storageResult EXCEPT !.op = "getGameStats",
                                              !.value = getGameStats(storage)]
    /\ UNCHANGED <<fill, gen, probe, storage, ads, managerVars>>

\* await Storage.resetGameStats()
ResetGameStats ==
    /\ storage' = resetGameStats(storage)
    /\ storageResult' = [storageResult EXCEPT !.op = "resetGameStats",
                                              !.value = JsNull, !.games = <<>>]
    /\ UNCHANGED <<fill, gen, probe, ads, managerVars>>

StatsNext ==
    \/ \E game \in ScoreGames : UpdateGameStats(game)
    \/ GetGameStats
    \/ ResetGameStats

SpecStats == StatsInit /\ [][StatsNext]_vars

(***************************************************************************)
(* SpecOverlap: callers of updateGameStats and addHighScore that do not    *)
(* wait for one call to settle before making the next.  A call is two      *)
(* steps: from its entry to the value that its awaited getItem resolves    *)
(* to, and from there to its setItem.  storageResult keeps the calls       *)
(* suspended between the two (pending, each with the value it read), the   *)
(* number of calls made, the number of updateGameStats calls finished and  *)
(* the games whose addHighScore call has finished.                         *)
(***************************************************************************)
\* The most calls made, and the most calls suspended at a time
MaxOverlapCalls == 3
MaxPending == 2

OverlapInit ==
    /\ fill = FillIdle
    /\ gen = [pc |-> "idle"]
    /\ probe = ProbeIdle
    /\ storage = EmptyStorage
    /\ storageResult = [pending |-> {}, calls |-> 0, finished |-> 0, added |-> {}]
    /\ ads = AdsConstructed
    /\ ManagerConstructed

\* The game passed by call number id
GameOfCall(game, id) ==
    [id |-> id, difficulty |-> game.difficulty, timeElapsed |-> game.timeElapsed,
     isCompleted |-> game.isCompleted]

\* Storage.updateGameStats(game) is called and runs until getGameStats has
\* resolved (line 52)
UpdateGameStatsRead(game) ==
    /\ storageResult.calls < MaxOverlapCalls
    /\ Cardinality(storageResult.pending) < MaxPending
    /\ storageResult' =
          [storageResult EXCEPT
              !.calls = @ + 1,
              !.pending = @ \cup {[op |-> "updateGameStats",
                                   game |-> GameOfCall(game, storageResult.calls + 1),
                                   read |-> getGameStats(storage)]}]
    /\ UNCHANGED <<fill, gen, probe, storage, ads, managerVars>>

\* A suspended updateGameStats goes on: it computes updatedStats from the
\* statistics it read and stores them (lines 54-85)
UpdateGameStatsWrite(call) ==
    /\ call \in storageResult.pending
    /\ call.op = "updateGameStats"
    /\ storage' = [storage EXCEPT
                      !.GAME_STATS = JSONstringify(updatedGameStats(call.read, call.game))]
    /\ storageResult' = [storageResult EXCEPT !.pending = @ \ {call},
                                              !.finished = @ + 1]
    /\ UNCHANGED <<fill, gen, probe, ads, managerVars>>

\* Storage.addHighScore(game) is called: it returns at once for a game that
\* is not completed, and runs until getHighScores has resolved otherwise
\* (lines 183-185)
AddHighScoreRead(game) ==
    /\ storageResult.calls < MaxOverlapCalls
    /\ Cardinality(storageResult.pending) < MaxPending
    /\ storageResult' =
          [storageResult EXCEPT
              !.calls = @ + 1,
              !.pending = IF game.isCompleted
                          THEN @ \cup {[op |-> "addHighScore",
                                        game |-> GameOfCall(game, storageResult.calls + 1),
                                        read |-> getHighScores(storage)]}
                          ELSE @]
    /\ UNCHANGED <<fill, gen, probe, storage, ads, managerVars>>

\* A suspended addHighScore goes on: it computes allScores from the list it
\* read and stores it (lines 187-198)
AddHighScoreWrite(call) ==
    /\ call \in storageResult.pending
    /\ call.op = "addHighScore"
    /\ storage' = [storage EXCEPT
                      !.HIGH_SCORES =
                          JSONstringify(JsArray(highScoresWith(call.read, call.game)))]
    /\ storageResult' = [storageResult EXCEPT !.pending = @ \ {call},
                                              !.added = @ \cup {call.game}]
    /\ UNCHANGED <<fill, gen, probe, ads, managerVars>>

OverlapNext ==
    \/ \E game \in ScoreGames : UpdateGameStatsRead(game)
    \/ \E call \in storageResult.pending : UpdateGameStatsWrite(call)
    \/ \E game \in ScoreGames : AddHighScoreRead(game)
    \/ \E call \in storageResult.pending : AddHighScoreWrite(call)

SpecOverlap == OverlapInit /\ [][OverlapNext]_vars

(***************************************************************************)
(* SpecAds: games completing and callers of                                *)
(* showInterstitialWithFrequencyControl.  A call is two steps, up to its   *)
(* await and from it on, so that other calls and completions can fall in   *)
(* between.                                                                *)
(***************************************************************************)
\* Date.now() when the application starts, the clock's step and its last step
AdStartClock == 1000000
AdClockStep == 100000
MaxAdClockSteps == 4

\* The most games completed, and the most calls suspended at one time
MaxCompletions == 7
MaxAwaiting == 2

AdsInit ==
    /\ fill = FillIdle
    /\ gen = [pc |-> "idle"]
    /\ probe = ProbeIdle
    /\ ServicesIdle
    /\ Holds(Constructed)
    /\ now = AdStartClock
    /\ completions = 0
    /\ playedMs = 0

\* adFrequencyManager.onGameCompleted()
GameCompleted ==
    /\ ads.completed < MaxCompletions
    /\ ads' = onGameCompleted(ads)
    /\ UNCHANGED <<fill, gen, probe, storage, storageResult, managerVars>>

\* showInterstitialWithFrequencyControl() is called and runs up to its await
ShowInterstitialCalled(ready) ==
    /\ ads.awaiting < MaxAwaiting
    /\ ads' = showInterstitialStart(ads, now, ready)
    /\ UNCHANGED <<fill, gen, probe, storage, storageResult, managerVars>>

\* GameScreen.handleGameComplete up to its await: onGameCompleted(), then the
\* call of showInterstitialWithFrequencyControl()
HandleGameComplete(ready) ==
    /\ ads.completed < MaxCompletions
    /\ ads.awaiting < MaxAwaiting
    /\ ads' = showInterstitialStart(onGameCompleted(ads), now, ready)
    /\ UNCHANGED <<fill, gen, probe, storage, storageResult, managerVars>>

\* showInterstitialAd() resolves and a suspended call runs to its end
ShowInterstitialSettled(success) ==
    /\ ads.awaiting > 0
    /\ ads' = showInterstitialResume(ads, now, success)
    /\ UNCHANGED <<fill, gen, probe, storage, storageResult, managerVars>>

\* Time passes.
AdClockAdvance ==
    /\ now < AdStartClock + MaxAdClockSteps * AdClockStep
    /\ now' = now + AdClockStep
    /\ UNCHANGED <<fill, gen, probe, serviceVars, gameData, gameState, startTime,
                   pausedTime, timerInterval, timers, events, result, completions,
                   playedMs>>

AdsNext ==
    \/ GameCompleted
    \/ \E ready \in BOOLEAN : ShowInterstitialCalled(ready)
    \/ \E ready \in BOOLEAN : HandleGameComplete(ready)
    \/ \E success \in BOOLEAN : ShowInterstitialSettled(success)
    \/ AdClockAdvance

SpecAds == AdsInit /\ [][AdsNext]_vars

(***************************************************************************)
(* Spec: one GameManager and its callers.  Each step is one call of a      *)
(* public method, one run of the interval callback, or the clock moving.   *)
(***************************************************************************)
\* The generator state in which startNewGame finds Math.random
SessionSeeds == {CHOOSE seed \in Seeds : \A other \in Seeds : seed <= other}

\* The difficulties the callers pass to startNewGame
SessionDifficulties == {"easy"}

\* generatePuzzle(difficulty) for each state of the generator
Generated ==
    [difficulty \in SessionDifficulties |->
        [seed \in SessionSeeds |-> generatePuzzle(difficulty, seed)]]

\* The player's cells: the last NumFreeCells empty cells of the puzzle.  The
\* player makes at most MaxMoves recorded moves there at a time.
NumFreeCells == 1
MaxMoves == 2

FreeCells(data) ==
    LET last == GRID_SIZE * GRID_SIZE - 1
        empty(k) == data.originalGrid[k \div GRID_SIZE][k % GRID_SIZE] = null
        back == CHOOSE i \in 0..last :
                    /\ empty(last - i)
                    /\ Cardinality({j \in (last - i)..last : empty(j)}) = NumFreeCells
    IN {k \in (last - back)..last : empty(k)}

\* The first given cell of the puzzle
GivenCell(data) ==
    CHOOSE k \in AllCells :
        /\ data.originalGrid[k \div GRID_SIZE][k % GRID_SIZE] # null
        /\ \A j \in 0..(k - 1) : data.originalGrid[j \div GRID_SIZE][j % GRID_SIZE] = null

\* Positions with only the row, or only the column, outside 0..8
OutOfRange == {<<GRID_SIZE, 0>>, <<0, GRID_SIZE>>}

\* The positions and values the callers pass to makeMove
MovePositions ==
    IF gameData = NoData THEN {<<0, 0>>} \cup OutOfRange
    ELSE {<<k \div GRID_SIZE, k % GRID_SIZE>> : k \in FreeCells(gameData) \cup {GivenCell(gameData)}}
         \cup OutOfRange

MoveValues(row, col) ==
    IF gameData = NoData \/ row \notin Idx \/ col \notin Idx THEN {1}
    ELSE LET right == gameData.solution[row][col]
         IN {null, right, (right % GRID_SIZE) + 1}

\* The recorded moves at the player's cells
FreeMoves(data) ==
    Cardinality({i \in DOMAIN data.moveHistory :
        data.moveHistory[i].position.row * GRID_SIZE + data.moveHistory[i].position.col
            \in FreeCells(data)})

\* The generator states in which getHint finds Math.random
HintRandoms == {0, 65536}

\* A session in which the player has filled in every cell but the last
\* NumFreeCells correctly: startNewGame, then makeMove on the first empty
\* cell with the solution's value while more than NumFreeCells are empty.
playDone(w) == Cardinality(EmptyCells(w.gameData.grid)) <= NumFreeCells

playStep(w, time) ==
    LET pos == PosOf(FirstEmpty(w.gameData.grid))
    IN makeMove(w, time, pos.row, pos.col, w.gameData.solution[pos.row][pos.col])

RECURSIVE playRun(_, _, _)
playRun(w, time, k) ==
    IF playDone(w) THEN w
    ELSE IF k = 0 THEN playStep(w, time)
    ELSE LET s1 == playRun(w, time, k - 1)
             s2 == playRun(s1, time, k - 1)
             s3 == playRun(s2, time, k - 1)
             s4 == playRun(s3, time, k - 1)
             s5 == playRun(s4, time, k - 1)
             s6 == playRun(s5, time, k - 1)
             s7 == playRun(s6, time, k - 1)
             s8 == playRun(s7, time, k - 1)
         IN <<s1, s2, s3, s4, s5, s6, s7, s8>>[8]

Endgame(difficulty, seed) ==
    playRun(startNewGame(Constructed, StartClock, difficulty, Generated[difficulty][seed]),
            StartClock, RunDepth)

\* onGameComplete calls among the callbacks of one operation
CountComplete(evs) == Cardinality({i \in DOMAIN evs : evs[i].type = "onGameComplete"})

\* The operation leaves the manager and its environment as w.
Commit(w) ==
    /\ gameData' = w.gameData
    /\ gameState' = w.gameState
    /\ startTime' = w.startTime
    /\ pausedTime' = w.pausedTime
    /\ timerInterval' = w.timerInterval
    /\ timers' = w.timers
    /\ events' = w.events
    /\ result' = w.result
    /\ completions' = completions + CountComplete(w.events)
    /\ UNCHANGED <<fill, gen, probe, serviceVars, now, playedMs>>

\* The operation creates or destroys the session, leaving w.
CommitSession(w) ==
    /\ gameData' = w.gameData
    /\ gameState' = w.gameState
    /\ startTime' = w.startTime
    /\ pausedTime' = w.pausedTime
    /\ timerInterval' = w.timerInterval
    /\ timers' = w.timers
    /\ events' = w.events
    /\ result' = w.result
    /\ completions' = CountComplete(w.events)
    /\ playedMs' = 0
    /\ UNCHANGED <<fill, gen, probe, serviceVars, now>>

Init ==
    /\ fill = FillIdle
    /\ gen = [pc |-> "idle"]
    /\ probe = ProbeIdle
    /\ ServicesIdle
    /\ now = StartClock
    /\ completions = 0
    /\ playedMs = 0
    /\ \E w \in {Constructed} \cup {Endgame(d, seed) : d \in SessionDifficulties, seed \in SessionSeeds} :
          Holds(w)

StartNewGame(difficulty, seed) ==
    CommitSession(startNewGame(World, now, difficulty, Generated[difficulty][seed]))

MakeMove(row, col, value) ==
    /\ (/\ gameData # NoData
        /\ gameState = "playing"
        /\ row \in Idx /\ col \in Idx
        /\ row * GRID_SIZE + col \in FreeCells(gameData))
       => FreeMoves(gameData) < MaxMoves
    /\ Commit(makeMove(World, now, row, col, value))

\* Undo is explored for the moves at the player's cells.
UndoMove ==
    /\ (gameData # NoData /\ Len(gameData.moveHistory) > 0)
       => LET lastMove == gameData.moveHistory[Len(gameData.moveHistory)]
          IN lastMove.position.row * GRID_SIZE + lastMove.position.col \in FreeCells(gameData)
    /\ Commit(undoMove(World))

PauseGame == Commit(pauseGame(World, now))

ResumeGame == Commit(resumeGame(World, now))

GetHint(rng) == Commit(getHint(World, rng))

Dispose == CommitSession(dispose(World))

\* A live interval fires: its callback runs.
TimerTick(handle) ==
    /\ handle \in timers
    /\ Commit(timerCallback(World, now))

\* Time passes; it counts as played while the session is in state playing.
ClockAdvance ==
    /\ now < StartClock + MaxClockSteps * ClockStep
    /\ now' = now + ClockStep
    /\ playedMs' = IF gameState = "playing" THEN playedMs + ClockStep ELSE playedMs
    /\ UNCHANGED <<fill, gen, probe, serviceVars, gameData, gameState, startTime, pausedTime,
                   timerInterval, timers, events, result, completions>>

Next ==
    \/ \E difficulty \in SessionDifficulties, seed \in SessionSeeds : StartNewGame(difficulty, seed)
    \/ \E pos \in MovePositions : \E value \in MoveValues(pos[1], pos[2]) :
          MakeMove(pos[1], pos[2], value)
    \/ UndoMove
    \/ PauseGame
    \/ ResumeGame
    \/ \E rng \in HintRandoms : GetHint(rng)
    \/ Dispose
    \/ \E handle \in timers : TimerTick(handle)
    \/ ClockAdvance

Spec == Init /\ [][Next]_vars

(***************************************************************************)
(* SpecSearch: one call of findAllSolutions(grid, [], maxSolutions), one    *)
(* statement of the search per step, on the grids that hasUniqueSolution   *)
(* hands to it.                                                            *)
(***************************************************************************)
\* The grids searched: the grids of ProbeGrids with at most MaxSearchEmpty
\* empty cells, and a generated puzzle.
SearchGrids ==
    {grid \in ProbeGrids : Cardinality(EmptyCells(grid)) <= MaxSearchEmpty}
        \cup {Generated[d][seed].puzzle : d \in SessionDifficulties, seed \in SessionSeeds}

SearchInit ==
    /\ fill = FillIdle
    /\ gen = [pc |-> "idle"]
    /\ probe \in {[pc |-> "searching", grid |-> grid,
                    search |-> findAllInit(grid, <<>>, maxSolutions)] :
                       grid \in SearchGrids, maxSolutions \in 1..MaxLimit}
    /\ ServicesIdle
    /\ ManagerConstructed

\* One statement of findAllSolutions
SearchStep ==
    /\ probe.pc = "searching"
    /\ ~findAllDone(probe.search)
    /\ probe' = [probe EXCEPT !.search = findAllStep(probe.search)]
    /\ UNCHANGED <<fill, gen, serviceVars, managerVars>>

\* The outermost call returns to its caller
SearchReturn ==
    /\ probe.pc = "searching"
    /\ findAllDone(probe.search)
    /\ probe' = [pc |-> "searched", grid |-> probe.grid,
                 maxSolutions |-> probe.search.maxSolutions,
                 solutions |-> probe.search.solutions, after |-> probe.search.grid]
    /\ UNCHANGED <<fill, gen, serviceVars, managerVars>>

SearchNext == SearchStep \/ SearchReturn

SpecSearch == SearchInit /\ [][SearchNext]_vars

(***************************************************************************)
(* Properties of the generator                                             *)
(***************************************************************************)
\* Every row, every column and every 3x3 box of grid is a permutation of 1..9
\* (so no cell is empty).
IsCompleteSolution(grid) ==
    /\ \A r \in Idx : {grid[r][c] : c \in Idx} = Nums
    /\ \A c \in Idx : {grid[r][c] : r \in Idx} = Nums
    /\ \A br \in 0..(BOX_SIZE - 1), bc \in 0..(BOX_SIZE - 1) :
          {grid[br * BOX_SIZE + i][bc * BOX_SIZE + j] :
              i \in 0..(BOX_SIZE - 1), j \in 0..(BOX_SIZE - 1)} = Nums

\* C1: before the removal loop, after every iteration of it and in the pair
\* generatePuzzle returns, for every difficulty, the search for up to two
\* solutions of the working puzzle finds exactly one, and it is the solution
\* grid returned with the puzzle.
C1_UniquenessIsLoopInvariant ==
    gen.pc \in {"loop", "returned", "solved"}
        => findAllSolutions(gen.loop.puzzle, <<>>, 2) = <<gen.loop.solution>>

\* generatePuzzle("hard") has returned after restoring at least one cell whose
\* removal would have left more than one solution.
C1_Witness ==
    /\ gen.pc = "returned"
    /\ gen.difficulty = "hard"
    /\ gen.loop.removed < gen.loop.idx
    /\ hasUniqueSolution(gen.loop.puzzle)

\* C2: whatever permutations the shuffles draw for the three diagonal boxes,
\* fillRemaining returns true and the grid generateCompleteSolution returns
\* has no empty cell and every row, column and 3x3 box a permutation of 1..9.
C2_CompleteSolutionIsValid ==
    fill.pc = "returned" => fill.returned /\ IsCompleteSolution(fill.grid)

\* generateCompleteSolution has returned a full grid.
C2_Witness ==
    /\ fill.pc = "returned"
    /\ validateGrid(fill.grid).isCompleted

\* C3: solvePuzzle on a copy of the puzzle generatePuzzle returned gives true
\* and leaves the copy equal, cell for cell, to the solution returned with it.
C3_SolverReproducesSolution ==
    gen.pc = "solved"
        => gen.solved.returned /\ gen.solved.grid = gen.loop.solution

\* solvePuzzle has solved a returned puzzle with 50 cells removed.
C3_Witness ==
    /\ gen.pc = "solved"
    /\ gen.difficulty = "medium"
    /\ gen.loop.removed = getCellsToRemove("medium")
    /\ gen.solved.returned
    /\ gen.solved.grid = gen.loop.solution

(***************************************************************************)
(* Properties of the session                                               *)
(***************************************************************************)
\* The manager and its environment after the step
WorldAfter ==
    [gameData |-> gameData', gameState |-> gameState', startTime |-> startTime',
     pausedTime |-> pausedTime', timerInterval |-> timerInterval',
     timers |-> timers', events |-> events', result |-> result']

\* The callbacks of the last operation include a time update.
TimeUpdated(evs) == \E i \in DOMAIN evs : evs[i].type = "onTimeUpdate"

\* C4: whenever makeMove returns true (for an editable cell and any value,
\* erasing and rewriting the current value included, and also when the move
\* completes the game), undoMove called next returns true and leaves the grid
\* and the move history exactly as they were before the move.
C4_UndoInvertsMove ==
    [][(/\ result'.op = "makeMove"
        /\ result'.returned = "true"
        /\ gameData' # gameData)
       => LET undone == undoMove(WorldAfter)
          IN /\ undone.result.returned = "true"
             /\ undone.gameData.grid = gameData.grid
             /\ undone.gameData.moveHistory = gameData.moveHistory]_vars

\* undoMove has returned true right after the move that completed the game.
C4_Witness ==
    /\ result.op = "undoMove"
    /\ result.returned = "true"
    /\ result.from = "completed"
    /\ FreeMoves(gameData) = 0

\* C5: in every session and every state of it, makeMove on any given cell
\* with any value (or null) returns false and leaves the session's data (the
\* grid and the move history among them) and the state unchanged.
C5_GivenCellsImmutable ==
    gameData # NoData =>
        \A row \in Idx, col \in Idx :
            gameData.originalGrid[row][col] # null =>
                \A value \in {null} \cup Nums :
                    LET moved == makeMove(World, now, row, col, value)
                    IN /\ moved.result.returned = "false"
                       /\ moved.gameData = gameData
                       /\ moved.gameState = gameState

\* makeMove on a given cell has returned false while playing.
C5_Witness ==
    /\ gameData # NoData
    /\ result.op = "makeMove"
    /\ result.from = "playing"
    /\ result.returned = "false"
    /\ result.args[1] \in Idx /\ result.args[2] \in Idx
    /\ gameData.originalGrid[result.args[1]][result.args[2]] # null

\* C6: makeMove called while playing with the row or the column outside 0..8
\* returns false, not an exception, and leaves grid and move history unchanged.
C6_OutOfRangeReturnsFalse ==
    [][(/\ result'.op = "makeMove"
        /\ result'.from = "playing"
        /\ (result'.args[1] \notin Idx \/ result'.args[2] \notin Idx))
       => /\ result'.returned = "false"
          /\ gameData'.grid = gameData.grid
          /\ gameData'.moveHistory = gameData.moveHistory]_vars

\* C7: while a session exists, the completion callback has been invoked once
\* if the state is completed and never otherwise, whatever was called since;
\* and after a makeMove that returned true and left a grid with no conflict
\* and no empty cell, the state is completed and that call invoked it.
C7_CompletionExactlyOnce ==
    gameData # NoData =>
        /\ completions = (IF gameState = "completed" THEN 1 ELSE 0)
        /\ (/\ result.op = "makeMove"
            /\ result.returned = "true"
            /\ validateGrid(gameData.grid).isCompleted)
           => /\ gameState = "completed"
              /\ gameData.isCompleted
              /\ CountComplete(events) = 1

\* After completion a move was undone and a further makeMove refused: the
\* completion callback has still been invoked once.
C7_Witness ==
    /\ gameState = "completed"
    /\ completions = 1
    /\ result.op = "makeMove"
    /\ result.returned = "false"
    /\ ~validateGrid(gameData.grid).isCompleted

\* C8: in state completed and in state menu no interval is live, so no
\* callback of the timer can run; and as long as the session stays completed
\* (or the manager in menu) the stored elapsed time does not change and no
\* operation invokes the time-update callback.
C8_NoTickAfterCompletionOrDispose ==
    /\ [](gameState \in {"completed", "menu"} => timers = {})
    /\ [][(gameState = "completed" /\ gameState' = "completed")
            => /\ gameData'.timeElapsed = gameData.timeElapsed
               /\ ~TimeUpdated(events')]_vars
    /\ [][(gameState = "menu" /\ gameState' = "menu") => ~TimeUpdated(events')]_vars

\* Time has passed since the move that completed the game.
C8_Witness ==
    /\ gameState = "completed"
    /\ result.op = "makeMove"
    /\ result.returned = "true"
    /\ now > gameData.moveHistory[Len(gameData.moveHistory)].timestamp
    /\ timers = {}

\* C9: while playing, the elapsed time the manager computes is the whole
\* seconds of the time the session has spent in state playing; the time
\* frozen at completion is the same quantity; and a time update never
\* reports less than the elapsed time stored by the previous one.
C9_ElapsedExcludesPauses ==
    /\ [](gameState = "playing"
            => getCurrentTimeElapsed(World, now) = playedMs \div 1000)
    /\ [](gameState = "completed" => gameData.timeElapsed = playedMs \div 1000)
    /\ [][(result'.op = "timer" /\ TimeUpdated(events'))
            => events'[1].value >= gameData.timeElapsed]_vars

\* A time update reports one second although more than a second and a half
\* has passed since the session began: the rest was spent paused.
C9_Witness ==
    /\ gameState = "playing"
    /\ result.op = "timer"
    /\ TimeUpdated(events)
    /\ events[1].value = 1
    /\ playedMs < now - gameData.createdAt

\* C10: between operations an interval is live exactly when the state is
\* playing, and never more than one, also after startNewGame during a game
\* and after repeated pauseGame and resumeGame.
C10_TimerIffPlaying ==
    /\ (timers # {}) <=> (gameState = "playing")
    /\ Cardinality(timers) <= 1
    /\ timers = (IF timerInterval = NoTimer THEN {} ELSE {timerInterval})

\* startNewGame was called while a game was being played.
C10_Witness ==
    /\ result.op = "startNewGame"
    /\ result.from = "playing"
    /\ Cardinality(timers) = 1

\* The fields of the manager and the scheduler are left as they are.
ManagerUnchanged ==
    UNCHANGED <<gameData, gameState, startTime, pausedTime, timerInterval, timers>>

\* C11: makeMove called in a state other than playing (menu, paused or
\* completed, with or without a session) returns false, leaves the grid, the
\* move history, the elapsed time and the state as they are and invokes no
\* callback.
C11_MoveRefusedUnlessPlaying ==
    [][(/\ gameState # "playing"
        /\ result'.op = "makeMove"
        /\ \E pos \in MovePositions : \E value \in MoveValues(pos[1], pos[2]) :
              MakeMove(pos[1], pos[2], value))
       => /\ result'.returned = "false"
          /\ ManagerUnchanged
          /\ events' = <<>>]_vars

\* makeMove on an editable cell has returned false while the game is paused.
C11_Witness ==
    /\ result.op = "makeMove"
    /\ result.from = "paused"
    /\ result.returned = "false"
    /\ gameState = "paused"
    /\ result.args[1] \in Idx /\ result.args[2] \in Idx
    /\ gameData.originalGrid[result.args[1]][result.args[2]] = null

\* C12: undoMove called with no session or with an empty move history
\* returns false, leaves grid, history, state and timer as they are and
\* invokes no callback.
C12_UndoOnEmptyHistory ==
    [][(/\ (gameData = NoData \/ Len(gameData.moveHistory) = 0)
        /\ result'.op = "undoMove"
        /\ UndoMove)
       => /\ result'.returned = "false"
          /\ ManagerUnchanged
          /\ events' = <<>>]_vars

\* undoMove has returned false in a game being played with no move recorded.
C12_Witness ==
    /\ result.op = "undoMove"
    /\ result.returned = "false"
    /\ result.from = "playing"
    /\ gameData # NoData
    /\ Len(gameData.moveHistory) = 0

\* C13: pauseGame outside state playing and resumeGame outside state paused
\* change neither state, timer, pause instant, start time nor grid and invoke
\* no callback; pauseGame in state playing leaves state paused and resumeGame
\* in state paused leaves state playing.
C13_PauseResumeOnlyFromSourceState ==
    /\ [][(gameState # "playing" /\ result'.op = "pauseGame" /\ PauseGame)
            => ManagerUnchanged /\ events' = <<>>]_vars
    /\ [][(gameState # "paused" /\ result'.op = "resumeGame" /\ ResumeGame)
            => ManagerUnchanged /\ events' = <<>>]_vars
    /\ [][(gameState = "playing" /\ result'.op = "pauseGame" /\ PauseGame) => gameState' = "paused"]_vars
    /\ [][(gameState = "paused" /\ result'.op = "resumeGame" /\ ResumeGame) => gameState' = "playing"]_vars

\* resumeGame was called on a completed game, which stays completed.
C13_Witness ==
    /\ result.op = "resumeGame"
    /\ result.from = "completed"
    /\ gameState = "completed"
    /\ events = <<>>

\* C14: startNewGame called while the session is playing or paused leaves
\* the current session and the state as they are.
C14_StartOnlyFromMenuOrCompleted ==
    [][(/\ gameState \in {"playing", "paused"}
        /\ result'.op = "startNewGame"
        /\ \E difficulty \in SessionDifficulties, seed \in SessionSeeds :
              StartNewGame(difficulty, seed))
       => /\ gameData' = gameData
          /\ gameState' = gameState]_vars

\* C15: in every state of a session, originalGrid and solution are the pair
\* generatePuzzle returned when the session was created, and every given
\* cell of the current grid holds its original value, which is the
\* solution's value there.
C15_GivenAndSolutionPreserved ==
    gameData # NoData =>
        /\ \E seed \in SessionSeeds :
              /\ gameData.originalGrid = Generated[gameData.difficulty][seed].puzzle
              /\ gameData.solution = Generated[gameData.difficulty][seed].solution
        /\ \A row \in Idx, col \in Idx :
              gameData.originalGrid[row][col] # null
                  => /\ gameData.grid[row][col] = gameData.originalGrid[row][col]
                     /\ gameData.grid[row][col] = gameData.solution[row][col]

\* A hint was asked for in a game in which a wrong value stands in an
\* editable cell, after a pause at an earlier time.
C15_Witness ==
    /\ gameData # NoData
    /\ result.op = "getHint"
    /\ gameState = "playing"
    /\ FreeMoves(gameData) > 0
    /\ startTime > gameData.createdAt
    /\ \E k \in FreeCells(gameData) :
          gameData.grid[k \div GRID_SIZE][k % GRID_SIZE]
              \notin {null, gameData.solution[k \div GRID_SIZE][k % GRID_SIZE]}

\* C16: dispose leaves state menu, no session and no interval, from every
\* state; called again it changes nothing; and while there is no session
\* makeMove and undoMove return false and getHint returns null.
C16_DisposeClearsSession ==
    /\ [][(result'.op = "dispose" /\ Dispose)
            => /\ gameState' = "menu"
               /\ gameData' = NoData
               /\ timers' = {}
               /\ timerInterval' = NoTimer]_vars
    /\ [][(gameData = NoData /\ result'.op = "dispose" /\ Dispose)
            => ManagerUnchanged /\ events' = <<>>]_vars
    /\ [](gameData = NoData
            => /\ gameState = "menu"
               /\ timers = {}
               /\ result.op \in {"makeMove", "undoMove"} => result.returned = "false"
               /\ result.op = "getHint" => result.returned = "null")

\* After a session was disposed of, getHint has returned null.
C16_Witness ==
    /\ gameData = NoData
    /\ startTime > 0
    /\ result.op = "getHint"
    /\ result.returned = "null"

\* C17: every step that changes the state invokes the state-change callback,
\* and the last such call of the step carries the new state.
C17_StateChangeAlwaysNotified ==
    [][gameState' # gameState
       => LET changes == {i \in DOMAIN events' : events'[i].type = "onGameStateChange"}
          IN /\ changes # {}
             /\ \A i \in changes :
                   (\A j \in changes : j <= i) => events'[i].state = gameState']_vars

\* C18: with a session, getHint returns null exactly when the current grid
\* has no empty cell and otherwise a position (row and column, nothing else)
\* whose cell is empty in the current grid and so not a given cell; it
\* changes no field of the manager and invokes no callback.
C18_HintIsEmptyCell ==
    [][(/\ gameData # NoData
        /\ result'.op = "getHint"
        /\ \E rng \in HintRandoms : GetHint(rng))
       => /\ ManagerUnchanged
          /\ events' = <<>>
          /\ IF EmptyCells(gameData.grid) = {}
             THEN result'.returned = "null" /\ result'.value = <<>>
             ELSE /\ result'.returned = "object"
                  /\ Len(result'.value) = 2
                  /\ result'.value[1] \in Idx /\ result'.value[2] \in Idx
                  /\ gameData.grid[result'.value[1]][result'.value[2]] = null
                  /\ gameData.originalGrid[result'.value[1]][result'.value[2]] = null]_vars

\* getHint has returned an empty cell of a game whose editable cell is filled.
C18_Witness ==
    /\ gameData # NoData
    /\ result.op = "getHint"
    /\ result.returned = "object"
    /\ FreeMoves(gameData) > 0
    /\ \A k \in FreeCells(gameData) : gameData.grid[k \div GRID_SIZE][k % GRID_SIZE] # null
    /\ gameData.grid[result.value[1]][result.value[2]] = null

(***************************************************************************)
(* Properties of validateGrid and isValidMove                              *)
(***************************************************************************)
\* Two distinct cells that share a row, a column or a 3x3 box
Peers(r1, c1, r2, c2) ==
    /\ r1 # r2 \/ c1 # c2
    /\ \/ r1 = r2
       \/ c1 = c2
       \/ r1 \div BOX_SIZE = r2 \div BOX_SIZE /\ c1 \div BOX_SIZE = c2 \div BOX_SIZE

\* The non-empty cells of grid whose value also occurs in a peer
Duplicated(grid) ==
    {pos \in [row : Idx, col : Idx] :
        /\ grid[pos.row][pos.col] # null
        /\ \E r \in Idx, c \in Idx :
              Peers(pos.row, pos.col, r, c) /\ grid[r][c] = grid[pos.row][pos.col]}

AllFilled(grid) == \A r \in Idx, c \in Idx : grid[r][c] # null

\* C19: validateGrid reports as conflicts exactly the non-empty cells whose
\* value also occurs in another cell of the same row, column or box; that set
\* never has exactly one element; isValid is true iff the set is empty, and
\* isCompleted is true iff the set is empty and all 81 cells are filled.
C19_ConflictsAreDuplicatedCells ==
    probe.pc = "validated"
    => /\ probe.returned.conflicts = Duplicated(probe.grid)
       /\ Cardinality(probe.returned.conflicts) # 1
       /\ probe.returned.isValid = (Duplicated(probe.grid) = {})
       /\ probe.returned.isCompleted = (Duplicated(probe.grid) = {} /\ AllFilled(probe.grid))

\* validateGrid has been called on a grid with all 81 cells filled and a
\* value written over one of them: the written cell and its peers conflict.
C19_Witness ==
    /\ probe.pc = "validated"
    /\ AllFilled(probe.grid)
    /\ Cardinality(probe.returned.conflicts) >= 3
    /\ ~probe.returned.isValid
    /\ ~probe.returned.isCompleted

\* C20: isValidMove returns true for the empty value, and otherwise returns
\* false iff the value occurs in another cell of the same row, column or 3x3
\* box; the result is the same whatever the cell (row, col) itself holds.
C20_ValidMoveIgnoresOwnCell ==
    probe.pc = "checked"
    => /\ probe.returned =
            (\/ probe.num = null
             \/ ~\E r \in Idx, c \in Idx :
                    Peers(probe.row, probe.col, r, c) /\ probe.grid[r][c] = probe.num)
       /\ \A own \in {null} \cup Nums :
            isValidMove([probe.grid EXCEPT ![probe.row][probe.col] = own],
                        probe.row, probe.col, probe.num) = probe.returned

\* isValidMove has accepted a value that the cell itself already holds, and
\* has a peer cell filled with another value.
C20_Witness ==
    /\ probe.pc = "checked"
    /\ probe.num # null
    /\ probe.grid[probe.row][probe.col] = probe.num
    /\ probe.returned
    /\ \E r \in Idx, c \in Idx :
          Peers(probe.row, probe.col, r, c) /\ probe.grid[r][c] # null

(***************************************************************************)
(* Properties of the backtracking searches                                 *)
(***************************************************************************)
\* The values that no filled peer of cell k holds in grid
Candidates(grid, k) ==
    {v \in Nums : \A r \in Idx, c \in Idx :
        Peers(PosOf(k).row, PosOf(k).col, r, c) => grid[r][c] # v}

\* The grids obtained from the grids of `partial` by filling the cells of
\* `cells` with candidates, one cell after the other.
RECURSIVE Extensions(_, _)
Extensions(partial, cells) ==
    IF cells = {} THEN partial
    ELSE LET k == CHOOSE k \in cells : TRUE
         IN Extensions({[g EXCEPT ![PosOf(k).row][PosOf(k).col] = v] :
                            <<g, v>> \in {gv \in partial \X Nums : gv[2] \in Candidates(gv[1], k)}},
                       cells \ {k})

\* The completions of grid: the full grids satisfying every row, column and
\* box constraint that agree with grid on each of its filled cells.
Completions(grid) == {g \in Extensions({grid}, EmptyCells(grid)) : IsCompleteSolution(g)}

\* C21: solvePuzzle returns false if the grid has no completion, and when it
\* returns true the caller's grid is a full conflict-free grid that agrees with
\* the input on every pre-filled cell.
C21_SolveFalseWithoutCompletion ==
    probe.pc = "solved"
    => /\ Completions(probe.grid) = {} => ~probe.returned
       /\ probe.returned
            => /\ IsCompleteSolution(probe.solved)
               /\ \A r \in Idx, c \in Idx :
                     probe.grid[r][c] # null => probe.solved[r][c] = probe.grid[r][c]

\* C22: on a conflict-free grid, findAllSolutions with limit maxSolutions >= 1
\* records exactly min(maxSolutions, N) grids, N being the number of
\* completions of the grid; each recorded grid is a completion, no grid is
\* recorded twice, and the grid passed in is as it was on entry.
C22_RecordsMinOfLimitAndCount ==
    (probe.pc = "searched" /\ Duplicated(probe.grid) = {})
    => LET N == Cardinality(Completions(probe.grid))
           found == Len(probe.solutions)
       IN /\ found = IF probe.maxSolutions < N THEN probe.maxSolutions ELSE N
          /\ found <= probe.maxSolutions
          /\ \A i \in 1..found : probe.solutions[i] \in Completions(probe.grid)
          /\ \A i \in 1..found, j \in 1..found :
                probe.solutions[i] = probe.solutions[j] => i = j
          /\ probe.after = probe.grid

\* The search stopped at a limit of two or more on a conflict-free grid that
\* has more completions than the limit.
C22_Witness ==
    /\ probe.pc = "searched"
    /\ Duplicated(probe.grid) = {}
    /\ probe.maxSolutions >= 2
    /\ Cardinality(Completions(probe.grid)) > probe.maxSolutions
    /\ Len(probe.solutions) = probe.maxSolutions
    /\ probe.after = probe.grid

(***************************************************************************)
(* Properties of generatePuzzle                                            *)
(***************************************************************************)
\* C23: the removal loop of generatePuzzle takes each position at most once,
\* the empty cells of the puzzle are as many as the removals kept and are
\* among the positions taken, the removals kept never exceed the target (easy
\* 40, medium 50, hard 60), every non-empty puzzle cell equals the solution's
\* cell, and a returned puzzle is below the target only if all 81 positions
\* were taken.
C23_RemovalsBoundedByTarget ==
    gen.pc \in {"loop", "returned", "solved"}
    => LET s == gen.loop
           tried == {s.shuffledPositions[i] : i \in 0..(s.idx - 1)}
           target == CASE gen.difficulty = "easy" -> 40
                       [] gen.difficulty = "medium" -> 50
                       [] gen.difficulty = "hard" -> 60
       IN /\ Cardinality(tried) = s.idx
          /\ s.idx <= GRID_SIZE * GRID_SIZE
          /\ Cardinality(EmptyCells(s.puzzle)) = s.removed
          /\ \A k \in EmptyCells(s.puzzle) : PosOf(k) \in tried
          /\ s.removed <= target
          /\ \A r \in Idx, c \in Idx :
                s.puzzle[r][c] # null => s.puzzle[r][c] = s.solution[r][c]
          /\ (gen.pc # "loop" /\ s.removed < target) => s.idx = GRID_SIZE * GRID_SIZE

\* generatePuzzle("hard") has returned a puzzle with fewer than 60 empty
\* cells after taking all 81 positions.
C23_Witness ==
    /\ gen.pc = "returned"
    /\ gen.difficulty = "hard"
    /\ gen.loop.idx = GRID_SIZE * GRID_SIZE
    /\ Cardinality(EmptyCells(gen.loop.puzzle)) < 60
    /\ Cardinality(EmptyCells(gen.loop.puzzle)) = gen.loop.removed

\* C24: generation draws from a generator handed to generatePuzzle, so two
\* runs of generatePuzzle with the same difficulty that the caller set up
\* with the same seed return identical (puzzle, solution) pairs.
C24_SameSeedSamePair ==
    gen.pc = "again"
    => /\ gen.again.puzzle = gen.loop.puzzle
       /\ gen.again.solution = gen.loop.solution

(***************************************************************************)
(* Properties of Storage                                                   *)
(***************************************************************************)
\* The stored high scores of difficulty d, in stored order
StoredScores(d) ==
    LET ofDifficulty(game) == game.difficulty = d
    IN SelectSeq(getHighScores(storage), ofDifficulty)

SnapshotFields == {"grid", "solution", "originalGrid", "moveHistory"}

\* text is the text of an object that has the snapshot fields
WellFormedSnapshot(text) ==
    /\ text.syntax = "json"
    /\ text.value.type = "object"
    /\ SnapshotFields \subseteq text.value.keys

\* C26: loadCurrentGame never throws, and returns null whenever the stored
\* snapshot is missing or malformed, including a stored value that is valid
\* JSON but lacks the snapshot fields.
C26_MalformedSnapshotIsNoGame ==
    storageResult.op = "loadCurrentGame"
    => /\ storageResult.outcome = "resolved"
       /\ ~WellFormedSnapshot(storage.CURRENT_GAME) => storageResult.value = JsNull

(***************************************************************************)
(* Properties of the interstitial frequency control                        *)
(***************************************************************************)
\* C27: whatever the interleaving of game completions and calls of
\* showInterstitialWithFrequencyControl, overlapping calls included, no
\* interstitial is shown before 3 games have completed, and any two
\* interstitials shown are more than 3 minutes apart and have at least 3
\* game completions between them.
C27_InterstitialsAreSpaced ==
    /\ \A i \in 1..Len(ads.shown) : ads.shown[i].completed >= GAMES_BETWEEN_ADS
    /\ \A i \in 1..Len(ads.shown), j \in 1..Len(ads.shown) :
          i < j => /\ ads.shown[j].at - ads.shown[i].at > MIN_TIME_BETWEEN_ADS
                   /\ ads.shown[j].completed - ads.shown[i].completed >= GAMES_BETWEEN_ADS

(***************************************************************************)
(* Properties of a completed session and of the move history               *)
(***************************************************************************)
\* C28: whenever the session state is completed, the isCompleted flag is set
\* and the current grid has no empty cell, has no conflict and equals the
\* solution cell for cell, whatever operations were applied to the completed
\* session.
C28_CompletedGridIsSolution ==
    gameState = "completed"
    => /\ gameData # NoData
       /\ gameData.isCompleted
       /\ EmptyCells(gameData.grid) = {}
       /\ validateGrid(gameData.grid).conflicts = {}
       /\ gameData.grid = gameData.solution

\* C29: an undoMove that returns true pops exactly the most recent move,
\* writes that move's previous value back at its position, changes no other
\* cell, and leaves the session in the state playing.
C29_UndoPopsLastMoveAndStaysPlaying ==
    [][(/\ result'.op = "undoMove"
        /\ result'.returned = "true"
        /\ UndoMove)
       => LET history == gameData.moveHistory
              lastMove == history[Len(history)]
          IN /\ gameData'.moveHistory = SubSeq(history, 1, Len(history) - 1)
             /\ gameData'.grid =
                   [gameData.grid EXCEPT ![lastMove.position.row][lastMove.position.col] =
                                             lastMove.previousValue]
             /\ gameState' = "playing"]_vars

\* The moves among the first n of the history that wrote the cell
MovesAt(history, n, row, col) ==
    {i \in 1..n : history[i].position = [row |-> row, col |-> col]}

\* The grid after replaying the first n moves of the history on originalGrid:
\* each cell holds what the last of those moves at the cell wrote, or the
\* original value when none of them wrote it.
Replayed(data, n) ==
    [row \in Idx |-> [col \in Idx |->
        LET at == MovesAt(data.moveHistory, n, row, col)
        IN IF at = {} THEN data.originalGrid[row][col]
           ELSE data.moveHistory[CHOOSE i \in at : \A j \in at : j <= i].newValue]]

\* C30: with an active session, the grid is the replay of the move history on
\* originalGrid, each move's previous value is the value its cell had after
\* the moves before it, and every non-empty cell that was not given was set
\* by a move still in the history.
C30_GridIsReplayOfHistory ==
    gameData # NoData =>
        LET history == gameData.moveHistory
        IN /\ gameData.grid = Replayed(gameData, Len(history))
           /\ \A i \in DOMAIN history :
                 history[i].previousValue =
                     Replayed(gameData, i - 1)[history[i].position.row][history[i].position.col]
           /\ \A row \in Idx, col \in Idx :
                 (gameData.grid[row][col] # null /\ gameData.originalGrid[row][col] = null)
                    => \E i \in DOMAIN history :
                          /\ history[i].position = [row |-> row, col |-> col]
                          /\ history[i].newValue = gameData.grid[row][col]

\* An undo has just popped a move that had overwritten the player's earlier
\* move at a cell: the earlier move is still in the history, and the cell
\* holds again the value that move wrote.
C30_Witness ==
    /\ gameData # NoData
    /\ result.op = "undoMove"
    /\ result.returned = "true"
    /\ \E i \in DOMAIN gameData.moveHistory :
          LET move == gameData.moveHistory[i]
          IN /\ move.position.row * GRID_SIZE + move.position.col \in FreeCells(gameData)
             /\ move.newValue # null
             /\ gameData.grid[move.position.row][move.position.col] = move.newValue

(***************************************************************************)
(* Properties of the solver's effect on the caller's grid                  *)
(***************************************************************************)
\* C31: when solvePuzzle returns false, the caller's grid is the grid passed
\* in, with no cell written.
C31_SolveFalseLeavesGrid ==
    (probe.pc = "solved" /\ ~probe.returned) => probe.solved = probe.grid

\* solvePuzzle has returned false on a grid with an empty cell in which the
\* search could place a value before it failed.
C31_Witness ==
    /\ probe.pc = "solved"
    /\ ~probe.returned
    /\ EmptyCells(probe.grid) # {}
    /\ LET pos == PosOf(FirstEmpty(probe.grid))
       IN \E num \in Nums : isValidMove(probe.grid, pos.row, pos.col, num)

(***************************************************************************)
(* Properties of the bounded search, statement by statement                *)
(***************************************************************************)
\* The next statement of the search is the test of candidate num for the
\* cell of the innermost pending call (isValidMove at line 252, followed by
\* the placement at line 253 when it passes).
TestsCandidate(s) == s.pc = "loop" /\ s.num <= 9

\* C32: once maxSolutions solutions have been recorded, the search tests and
\* places no further candidate value at any pending level of the recursion.
C32_SearchStopsAtLimit ==
    [][(/\ probe.pc = "searching"
        /\ Len(probe.search.solutions) >= probe.search.maxSolutions
        /\ SearchStep)
       => ~TestsCandidate(probe.search)]_vars

(***************************************************************************)
(* Properties of generateCompleteSolution                                  *)
(***************************************************************************)
\* The three diagonal boxes of a grid, the other cells empty
DiagonalBoxes(grid) ==
    [r \in Idx |-> [c \in Idx |->
        IF r \div BOX_SIZE = c \div BOX_SIZE THEN grid[r][c] ELSE null]]

\* C33: fillRemaining tries the candidates of each cell in a randomized
\* order, so that two runs that start from the same three diagonal boxes,
\* with the random generator in different states, can return different
\* complete grids.
C33_FillOrderIsRandomized ==
    fill.pc = "returned"
    => \E rng1 \in Seeds, rng2 \in Seeds :
          fillRemainingWith(DiagonalBoxes(fill.grid), rng1).grid
              # fillRemainingWith(DiagonalBoxes(fill.grid), rng2).grid

(***************************************************************************)
(* Properties of the order of the callbacks                                *)
(***************************************************************************)
\* The callbacks invoked by the last operation, in order
EventTypes == [i \in DOMAIN events |-> events[i].type]

\* The last operation was a makeMove that returned true and left a complete
\* conflict-free grid.
CompletingMove ==
    /\ gameData # NoData
    /\ result.op = "makeMove"
    /\ result.returned = "true"
    /\ validateGrid(gameData.grid).isCompleted

\* C35: a completing makeMove invokes, in this order, the grid update, the
\* validation update, the state change to completed and the game completion,
\* and at the game completion the state is completed, isCompleted is set, the
\* elapsed time is stored and the timer is stopped; startNewGame invokes the
\* state change to playing, the grid update and the validation update.
C35_EventsInFixedOrder ==
    /\ CompletingMove
         => /\ EventTypes = <<"onGridUpdate", "onValidationUpdate",
                              "onGameStateChange", "onGameComplete">>
            /\ events[1].state = "playing"
            /\ events[2].state = "playing"
            /\ events[3].state = "completed"
            /\ events[4].state = "completed"
            /\ events[4].isCompleted
            /\ events[4].value = gameData.timeElapsed
            /\ events[4].timerInterval = NoTimer
            /\ events[4].timerInterval \notin timers
    /\ (result.op = "startNewGame" /\ result.returned = "void")
         => /\ EventTypes = <<"onGameStateChange", "onGridUpdate", "onValidationUpdate">>
            /\ \A i \in DOMAIN events : events[i].state = "playing"

\* A makeMove has just completed the game and the listener has had its four
\* callbacks.
C35_Witness ==
    /\ CompletingMove
    /\ gameState = "completed"
    /\ Len(events) = 4
    /\ events[4].type = "onGameComplete"

(***************************************************************************)
(* Properties of the puzzle returned below its target                      *)
(***************************************************************************)
\* The given cells of a puzzle
GivenCells(puzzle) == AllCells \ EmptyCells(puzzle)

\* puzzle with cell k cleared
Cleared(puzzle, k) == [puzzle EXCEPT ![k \div GRID_SIZE][k % GRID_SIZE] = null]

\* C36: a puzzle that generatePuzzle returns with fewer empty cells than the
\* target of its difficulty is irreducible: with any one of its given cells
\* cleared it has more than one solution.
C36_BelowTargetIsIrreducible ==
    (gen.pc = "returned" /\ gen.loop.removed < gen.loop.cellsToRemove)
    => \A k \in GivenCells(gen.loop.puzzle) :
          Len(findAllSolutions(Cleared(gen.loop.puzzle, k), <<>>, 2)) = 2

\* generatePuzzle has returned a puzzle short of its target that still has
\* given cells.
C36_Witness ==
    /\ gen.pc = "returned"
    /\ gen.loop.removed < gen.loop.cellsToRemove
    /\ Cardinality(EmptyCells(gen.loop.puzzle)) < gen.loop.cellsToRemove
    /\ GivenCells(gen.loop.puzzle) # {}

(***************************************************************************)
(* Properties of the order in which the solver searches                    *)
(***************************************************************************)
\* g comes before h when the cells are read in row-major order: g holds the
\* smaller value in the first cell where they differ.
LexBefore(g, h) ==
    \E k \in AllCells :
        /\ g[PosOf(k).row][PosOf(k).col] < h[PosOf(k).row][PosOf(k).col]
        /\ \A j \in 0..(k - 1) :
              g[PosOf(j).row][PosOf(j).col] = h[PosOf(j).row][PosOf(j).col]

\* C37: on a conflict-free grid that has a completion, solvePuzzle returns
\* true and leaves in the caller's grid the completion that comes first when
\* the cells are read in row-major order.
C37_SolveReturnsFirstCompletion ==
    (probe.pc = "solved" /\ Duplicated(probe.grid) = {})
    => LET all == Completions(probe.grid)
       IN all # {}
            => /\ probe.returned
               /\ probe.solved \in all
               /\ \A other \in all \ {probe.solved} : LexBefore(probe.solved, other)

\* solvePuzzle has returned on a conflict-free grid with several completions.
C37_Witness ==
    /\ probe.pc = "solved"
    /\ probe.returned
    /\ Duplicated(probe.grid) = {}
    /\ Cardinality(Completions(probe.grid)) >= 2

(***************************************************************************)
(* Properties of the statistics                                            *)
(***************************************************************************)
\* The completed games among those recorded
CompletedGames(games) == SelectSeq(games, LAMBDA game : game.isCompleted)

\* The sum of timeElapsed over a sequence of games
RECURSIVE TotalTime(_)
TotalTime(games) ==
    IF games = <<>> THEN 0 ELSE games[1].timeElapsed + TotalTime(Tail(games))

\* The least timeElapsed among the completed games of difficulty d, null if
\* there is none
BestTime(games, d) ==
    LET times == {games[i].timeElapsed : i \in {j \in DOMAIN games :
                      games[j].isCompleted /\ games[j].difficulty = d}}
    IN IF times = {} THEN JsNull
       ELSE JsNumber(CHOOSE t \in times : \A u \in times : t <= u)

\* C38: after updateGameStats calls made one after the other from the
\* default statistics, gamesCompleted <= gamesPlayed, bestTimes[d] is the
\* least timeElapsed of the completed games of difficulty d (null without
\* one), and averageTime is the sum of timeElapsed over the completed games
\* divided by their number, rounded down, also when games that were not
\* completed have been recorded.
C38_StatisticsOfCompletedGames ==
    storageResult.op \in {"updateGameStats", "getGameStats", "resetGameStats"}
    => LET stats == getGameStats(storage)
           games == storageResult.games
           completed == CompletedGames(games)
       IN /\ stats.gamesCompleted <= stats.gamesPlayed
          /\ \A d \in Difficulty : stats.bestTimes[d] = BestTime(games, d)
          /\ Len(completed) > 0
                => stats.averageTime = TotalTime(completed) \div Len(completed)

(***************************************************************************)
(* Properties of overlapping Storage calls                                 *)
(***************************************************************************)
\* C39: whatever the interleaving of the reads and writes of overlapping
\* updateGameStats calls, and of overlapping addHighScore calls, the stored
\* gamesPlayed is the number of updateGameStats calls that have finished and
\* every completed game whose addHighScore call has finished is in the stored
\* high-score list (fewer than ten games are added per difficulty).
C39_NoUpdateLost ==
    /\ getGameStats(storage).gamesPlayed = storageResult.finished
    /\ \A game \in storageResult.added :
          \E i \in DOMAIN getHighScores(storage) : getHighScores(storage)[i] = game

====
